---- MODULE Spec2Model ----
(***************************************************************************)
(* Model of the conversation session engine of telegram-gpt:               *)
(* src/src/conversation.rs (Conversation, ChatTurn, TokenizedMessage) and  *)
(* the message handler of src/src/main.rs that drives it.                  *)
(*                                                                         *)
(* src/src/telegram.rs (bot_split_send) and the streaming buffer are the   *)
(* two chunkers of an answer; process_message of src/src/main.rs with      *)
(* src/src/db.rs is the handler of a message around the conversations      *)
(* mutex.                                                                  *)
(*                                                                         *)
(* The specifications share the variables:                                 *)
(*   Spec      every Conversation method as one atomic call, with          *)
(*             arbitrary arguments;                                        *)
(*   SpecLoop  the same, with prune_to_token_budget run one loop iteration *)
(*             at a time (LoopFair adds the fairness of a running call);   *)
(*   SpecChat  concurrent message handlers of one chat, each taking the    *)
(*             conversation lock to open a turn, releasing it during the   *)
(*             provider call, and re-taking it to record or discard;       *)
(*   SpecSend  one answer text through bot_split_send, send by send, and   *)
(*             through the streaming buffer as one delta and finalize;     *)
(*   SpecApp   process_message of concurrently handled messages of two     *)
(*             chats, one step per await (AppFair: no runnable task is     *)
(*             left waiting forever).                                      *)
(***************************************************************************)
EXTENDS Integers, Sequences, FiniteSets, TLC

\* ------------------------------------------------------------------ bounds
\* number of record_user_message calls explored per conversation
MaxTurns == 3
\* longest text, in tokens
MaxText == 1
\* largest max_prompt_tokens passed to prune_to_token_budget
MaxBudget == 2
\* largest system_prompt_tokens passed to prune_to_token_budget
MaxReserve == 1
\* cap on prompt_tokens (the counter grows without limit otherwise)
MaxPrompt == 2
\* number of concurrently running message handlers of the chat
NumHandlers == 2
\* longest answer text, in characters
MaxLen == 5
\* largest message length limit the chunkers are run with
MaxLimit == 3
\* number of messages the bot receives
MaxMsgs == 2
\* token budget of the model, in units of the estimate of one message
MaxHistory == 4
\* rows of one chat in the history table
MaxStored == 3
\* most bytes of one text, and most bytes added to one, given to the estimator
MaxBytes == 5
\* most messages given to the estimator
MaxMessages == 2
\* most events of a response body
MaxEvents == 2
\* most bytes of one network chunk
MaxChunk == 8
\* most entries added to the history of a chat while the handlers run
MaxAdds == 1
\* longest API key
MaxKey == 12

\* A text is the sequence of the tokens the tokenizer cuts it into.
Texts == UNION {[1..n -> {"w"}] : n \in 0..MaxText}
\* turn ids a caller may pass: issued ones and one that never was
TurnIds == 0..MaxTurns
Budgets == 0..MaxBudget
Reserves == 0..MaxReserve
Handlers == 1..NumHandlers
\* the characters of a text: a letter, the space, the newline and the tab
Chars == {"a", " ", "\n", "\t"}
\* a text is the sequence of its characters
Strings == UNION {[1..n -> Chars] : n \in 0..MaxLen}
\* TELEGRAM_MAX_MESSAGE_LENGTH is 4096; the chunkers are run with small
\* limits instead so that texts longer than the limit are explored
Limits == 1..MaxLimit
\* the chats that write to the bot
Chats == {"A", "B"}
\* the Telegram messages, numbered in the order of arrival
Msgs == 1..MaxMsgs

VARIABLES
    conv,     \* the Conversation: next_turn_id, turns, prompt_tokens
    pre,      \* the Conversation as it was when the last call began
    last,     \* the last method call and its arguments
    undo,     \* the turns and prompt_tokens before the latest open
    issued,   \* the ids record_user_message returned, in order
    loop,     \* position of a running prune_to_token_budget (SpecLoop)
    hpc,      \* position of each message handler (SpecChat)
    hturn,    \* turn id each message handler holds (SpecChat)
    tx,       \* a bot_split_send call: text, limit, messages sent (SpecSend)
    sb,       \* the streaming buffer fed with the same text (SpecSend)
    lock,     \* the message whose handler owns the conversations mutex, or 0
    cache,    \* the map of loaded Conversations, by chat
    rows,     \* the chats table
    dbhist,   \* the history table, by chat
    app,      \* position and locals of process_message, by message
    outbox,   \* the messages that reached the chats
    reacted,  \* the messages that got a reaction
    contacts, \* per chat: the load_conversation calls and the rows inserted
    db,       \* the database of one chat and the db.rs call on it (SpecDb)
    tok,      \* the input and the result of a token counter (SpecTokens)
    st,       \* a send_streaming call: bytes, events, callback (SpecStream)
    sync,     \* the models lock, the conversations mutex and the tasks that
              \* take them (SpecModels)
    gate,     \* rows, map and handlers of process_message with groups and
              \* /approve (SpecGate)
    cmd       \* the command text or the key that process_command handles
              \* (SpecCommands)

convVars == <<conv, pre, last, undo, issued, loop, hpc, hturn>>

sendVars == <<tx, sb>>

appVars == <<lock, cache, rows, dbhist, app, outbox, reacted, contacts>>

dbVars == <<db>>

tokVars == <<tok>>

streamVars == <<st>>

\* the tasks on the locks, the handlers at the gate, the command handled
taskVars == <<sync, gate, cmd>>

\* the variables of the other specifications
restVars == <<convVars, sendVars, appVars, dbVars, tokVars, streamVars>>

vars == <<restVars, taskVars>>

\* ------------------------------------------------------- conversation.rs
\* Option<T>: None is the empty sequence, Some(x) is <<x>>.
None == <<>>
Some(x) == <<x>>

count_text(text) == Len(text)

new_user(text) == [role |-> "user", text |-> text, tokens |-> count_text(text)]

new_assistant(text) ==
    [role |-> "assistant", text |-> text, tokens |-> count_text(text)]

ChatTurn(id, user, assistant) ==
    [id |-> id, user |-> user, assistant |-> assistant]

total_tokens(turn) ==
    LET assistant_tokens ==
            IF turn.assistant = None THEN 0 ELSE turn.assistant[1].tokens
    IN  turn.user.tokens + assistant_tokens

is_complete(turn) == turn.assistant # None

saturating_sub(a, b) == IF a >= b THEN a - b ELSE 0

\* #[derive(Default)]
DefaultConversation == [next_turn_id |-> 0, turns |-> <<>>, prompt_tokens |-> 0]

\* index of the first turn with the id; 0 when there is none
position(turns, turn_id) ==
    LET found == {i \in 1..Len(turns) : turns[i].id = turn_id}
    IN  IF found = {} THEN 0
        ELSE CHOOSE i \in found : \A j \in found : i <= j

\* VecDeque::remove(index)
remove(turns, index) ==
    SubSeq(turns, 1, index - 1) \o SubSeq(turns, index + 1, Len(turns))

record_user_message_noinc(c, user_text) ==
    LET turn_id == c.next_turn_id
        user == new_user(user_text)
    IN  [conv |-> [next_turn_id |-> c.next_turn_id,
                   turns |-> Append(c.turns, ChatTurn(turn_id, user, None)),
                   prompt_tokens |-> c.prompt_tokens + user.tokens],
         turn_id |-> turn_id]

\* returns the conversation after the call and the turn id returned
record_user_message(c, user_text) ==
    LET turn_id == c.next_turn_id
        user == new_user(user_text)
    IN  [conv |-> [next_turn_id |-> c.next_turn_id + 1,
                   turns |-> Append(c.turns, ChatTurn(turn_id, user, None)),
                   prompt_tokens |-> c.prompt_tokens + user.tokens],
         turn_id |-> turn_id]

record_assistant_response_absent(c, turn_id, answer) ==
    LET index == position(c.turns, turn_id)
        assistant == new_assistant(answer)
    IN  IF index = 0
        THEN [c EXCEPT !.prompt_tokens = @ + assistant.tokens]
        ELSE [c EXCEPT !.prompt_tokens = @ + assistant.tokens,
                       !.turns[index].assistant = Some(assistant)]

record_assistant_response_front(c, turn_id, answer) ==
    LET index == position(c.turns, turn_id)
        assistant == new_assistant(answer)
    IN  IF index = 0 THEN c
        ELSE [c EXCEPT !.prompt_tokens = @ + assistant.tokens,
                       !.turns[1].assistant = Some(assistant)]

record_assistant_response(c, turn_id, answer) ==
    LET index == position(c.turns, turn_id)
        assistant == new_assistant(answer)
    IN  IF index = 0 THEN c
        ELSE [c EXCEPT !.prompt_tokens = @ + assistant.tokens,
                       !.turns[index].assistant = Some(assistant)]

discard_turn_no_refund(c, turn_id) ==
    LET index == position(c.turns, turn_id)
    IN  IF index = 0 THEN c
        ELSE [c EXCEPT !.turns = remove(c.turns, index)]

discard_turn_user_only(c, turn_id) ==
    LET index == position(c.turns, turn_id)
    IN  IF index = 0 THEN c
        ELSE [c EXCEPT !.turns = remove(c.turns, index),
                       !.prompt_tokens =
                           saturating_sub(@, c.turns[index].user.tokens)]

discard_turn(c, turn_id) ==
    LET index == position(c.turns, turn_id)
    IN  IF index = 0 THEN c
        ELSE [c EXCEPT !.turns = remove(c.turns, index),
                       !.prompt_tokens =
                           saturating_sub(@, total_tokens(c.turns[index]))]

is_empty(c) == c.turns = <<>>

prompt_token_count(c) == c.prompt_tokens

\* the loop condition of prune_to_token_budget
over_budget_inclusive(c, max_prompt_tokens, system_prompt_tokens) ==
    c.prompt_tokens + system_prompt_tokens >= max_prompt_tokens

over_budget(c, max_prompt_tokens, system_prompt_tokens) ==
    c.prompt_tokens + system_prompt_tokens > max_prompt_tokens

\* turns.front().map(|turn| turn.is_complete()).unwrap_or(false)
front_is_complete_any(c) == c.turns # <<>>

front_is_complete(c) ==
    IF c.turns = <<>> THEN FALSE ELSE is_complete(Head(c.turns))

\* turns.pop_front() and the subtraction of the removed turn's tokens
pop_front_user_only(c) ==
    IF c.turns = <<>> THEN c
    ELSE [c EXCEPT !.turns = Tail(c.turns),
                   !.prompt_tokens =
                       saturating_sub(@, Head(c.turns).user.tokens)]

pop_front(c) ==
    IF c.turns = <<>> THEN c
    ELSE [c EXCEPT !.turns = Tail(c.turns),
                   !.prompt_tokens =
                       saturating_sub(@, total_tokens(Head(c.turns)))]

RECURSIVE prune_to_token_budget(_, _, _)
prune_to_token_budget(c, max_prompt_tokens, system_prompt_tokens) ==
    IF over_budget(c, max_prompt_tokens, system_prompt_tokens)
    THEN IF front_is_complete(c)
         THEN prune_to_token_budget(pop_front(c), max_prompt_tokens,
                                    system_prompt_tokens)
         ELSE c     \* warn!(...); break
    ELSE c

\* TokenizedMessage::message: the ChatMessage of a recorded message
message(m) == [role |-> m.role, text |-> m.text]

\* a request that lists the complete turns only
RECURSIVE build_chat_request_complete_only(_, _)
build_chat_request_complete_only(c, system_prompt) ==
    IF c.turns = <<>> THEN [system |-> system_prompt, messages |-> <<>>]
    ELSE LET turn == Head(c.turns)
             rest == build_chat_request_complete_only(
                         [c EXCEPT !.turns = Tail(@)], system_prompt)
         IN  [rest EXCEPT !.messages =
                 (IF turn.assistant # None
                  THEN <<message(turn.user), message(turn.assistant[1])>>
                  ELSE <<>>) \o @]

\* build_chat_request(&self, system_prompt): ChatRequest::new(messages),
\* with_system(prompt) for Some(prompt)
RECURSIVE build_chat_request(_, _)
build_chat_request(c, system_prompt) ==
    IF c.turns = <<>> THEN [system |-> system_prompt, messages |-> <<>>]
    ELSE LET turn == Head(c.turns)
             rest == build_chat_request([c EXCEPT !.turns = Tail(@)],
                                        system_prompt)
         IN  [rest EXCEPT !.messages =
                 <<message(turn.user)>>
                 \o (IF turn.assistant # None
                     THEN <<message(turn.assistant[1])>> ELSE <<>>)
                 \o @]

\* ------------------------------------------------------------- telegram.rs
\* only the space cuts
is_separator_space_only(ch) == ch = " "

\* text.split_inclusive([' ', '\n']) cuts after each of these two characters
is_separator(ch) == ch \in {" ", "\n"}

\* a cut that loses the separators (what split would do)
RECURSIVE split_exclusive(_)
split_exclusive(text) ==
    IF text = <<>> THEN <<>>
    ELSE LET seps == {i \in 1..Len(text) : is_separator(text[i])}
             n == IF seps = {} THEN Len(text)
                  ELSE CHOOSE i \in seps : \A j \in seps : i <= j
             m == IF seps = {} THEN n ELSE n - 1
         IN  <<SubSeq(text, 1, m)>>
                 \o split_exclusive(SubSeq(text, n + 1, Len(text)))

\* the tokens of text.split_inclusive([' ', '\n']): each ends with its
\* separator, the last one may have none
RECURSIVE split_inclusive(_)
split_inclusive(text) ==
    IF text = <<>> THEN <<>>
    ELSE LET seps == {i \in 1..Len(text) : is_separator(text[i])}
             n == IF seps = {} THEN Len(text)
                  ELSE CHOOSE i \in seps : \A j \in seps : i <= j
         IN  <<SubSeq(text, 1, n)>>
                 \o split_inclusive(SubSeq(text, n + 1, Len(text)))

\* if buffer_len + token_len > TELEGRAM_MAX_MESSAGE_LENGTH && !buffer.is_empty()
flush_before(buffer, token, limit) ==
    /\ Len(buffer) + Len(token) > limit
    /\ buffer # <<>>

\* the sends of a non-empty buffer or chunk: if !buffer.is_empty() { send }
send_non_empty(buffer) == IF buffer # <<>> THEN <<buffer>> ELSE <<>>

\* a character loop without the send of the rest after it
RECURSIVE hard_split_drop_rest(_, _)
hard_split_drop_rest(token, limit) ==
    IF Len(token) <= limit THEN <<>>
    ELSE <<SubSeq(token, 1, limit)>>
             \o hard_split_drop_rest(SubSeq(token, limit + 1, Len(token)),
                                     limit)

\* a character loop that cuts only after limit + 1 characters
RECURSIVE hard_split_late(_, _)
hard_split_late(token, limit) ==
    IF Len(token) <= limit + 1 THEN send_non_empty(token)
    ELSE <<SubSeq(token, 1, limit + 1)>>
             \o hard_split_late(SubSeq(token, limit + 2, Len(token)), limit)

\* the character loop over a token longer than the limit: chunk is sent
\* each time it holds limit characters, and its non-empty rest at the end
RECURSIVE hard_split(_, _)
hard_split(token, limit) ==
    IF Len(token) <= limit THEN send_non_empty(token)
    ELSE <<SubSeq(token, 1, limit)>>
             \o hard_split(SubSeq(token, limit + 1, Len(token)), limit)

\* for token in text.split_inclusive(..): the messages sent, in order,
\* from the given tokens on with the given buffer
RECURSIVE split_loop(_, _, _)
split_loop(tokens, buffer, limit) ==
    IF tokens = <<>> THEN send_non_empty(buffer)
    ELSE LET token == Head(tokens)
         IN  IF Len(token) > limit
             THEN send_non_empty(buffer) \o hard_split(token, limit)
                      \o split_loop(Tail(tokens), <<>>, limit)
             ELSE IF flush_before(buffer, token, limit)
             THEN <<buffer>> \o split_loop(Tail(tokens), token, limit)
             ELSE split_loop(Tail(tokens), buffer \o token, limit)

\* bot_split_send(bot, chat_id, text, ..): the messages it hands to
\* send_message_checked, in order, when every send succeeds
bot_split_send(text, limit) ==
    IF Len(text) <= limit THEN <<text>>
    ELSE split_loop(split_inclusive(text), <<>>, limit)

\* text.split('\n'): the lines of a text without their newline; an empty
\* text has one empty line, a text that ends with a newline a last empty one
RECURSIVE split(_)
split(text) ==
    LET seps == {i \in 1..Len(text) : text[i] = "\n"}
    IN  IF seps = {} THEN <<text>>
        ELSE LET n == CHOOSE i \in seps : \A j \in seps : i <= j
             IN  <<SubSeq(text, 1, n - 1)>>
                     \o split(SubSeq(text, n + 1, Len(text)))

\* if !buffer.is_empty() { buffer.push('\n') } buffer.push_str(line)
push_line(buffer, line) ==
    IF buffer # <<>> THEN buffer \o <<"\n">> \o line ELSE line

\* for line in text.split('\n'): the messages handed to
\* send_formatted_checked, in order, from the given lines on with the given
\* buffer, and whether fatal_panic ends the process at a line over the limit
RECURSIVE formatted_loop(_, _, _)
formatted_loop(lines_, buffer, limit) ==
    IF lines_ = <<>>
    THEN [sent |-> send_non_empty(buffer), fatal |-> FALSE]
    ELSE LET line == Head(lines_)
             required == Len(line) + IF buffer = <<>> THEN 0 ELSE 1
         IN  IF Len(line) > limit THEN [sent |-> <<>>, fatal |-> TRUE]
             ELSE IF Len(buffer) + required > limit
             THEN LET rest == formatted_loop(Tail(lines_),
                                             push_line(<<>>, line), limit)
                  IN  [rest EXCEPT !.sent = <<buffer>> \o @]
             ELSE formatted_loop(Tail(lines_), push_line(buffer, line),
                                 limit)

\* bot_split_send_formatted(bot, chat_id, text, ..): the messages it hands
\* to send_formatted_checked, in order, when every send succeeds
bot_split_send_formatted(text, limit) ==
    IF Len(text) <= limit THEN [sent |-> <<text>>, fatal |-> FALSE]
    ELSE formatted_loop(split(text), <<>>, limit)

\* assert!(text.chars().count() <= TELEGRAM_MAX_MESSAGE_LENGTH)
send_message_checked_asserts(text, limit) == Len(text) <= limit

\* ------------------------------------------------------- streaming buffer
\* the characters the streaming buffer treats as whitespace
is_whitespace(ch) == ch \in {" ", "\n", "\t"}

\* takePrefix(buffer, maxUnits): the whole buffer when it is shorter than
\* maxUnits; otherwise the split at the last whitespace seen in the first
\* maxUnits code points (not at position 0), or at maxUnits if there is none
takePrefix(buffer, maxUnits) ==
    IF Len(buffer) < maxUnits THEN [prefix |-> buffer, rest |-> <<>>]
    ELSE LET ws == {i \in 2..maxUnits : is_whitespace(buffer[i])}
             cut == IF ws = {} THEN maxUnits
                    ELSE (CHOOSE i \in ws : \A j \in ws : j <= i) - 1
         IN  [prefix |-> SubSeq(buffer, 1, cut),
              rest |-> SubSeq(buffer, cut + 1, Len(buffer))]

\* after a delta is appended: while buffer.length >= maxUnits, takePrefix
\* and emit a chunk
RECURSIVE emit_while_full(_, _, _)
emit_while_full(buffer, emitted, maxUnits) ==
    IF Len(buffer) >= maxUnits
    THEN LET t == takePrefix(buffer, maxUnits)
         IN  emit_while_full(t.rest, Append(emitted, t.prefix), maxUnits)
    ELSE [buffer |-> buffer, emitted |-> emitted]

\* ------------------------------------------------------- main.rs and db.rs
\* a mutex that is never found taken
mutex_free_always(l) == TRUE

\* self.conversations.lock().await returns only while no task holds the
\* one mutex around the map of all chats
mutex_free(l) == l = 0

\* a guard that outlives the request building
drop_conversation_leak(l) == l

\* drop(conversation): the guard is given back before the provider call
drop_conversation(l) == 0

\* a send error that is ignored
bot_split_send_err_ignored == "persist_want"

\* telegram::bot_split_send(..).await?: a send error leaves
\* handle_llm_response at once
bot_split_send_err == "done"

\* an Err branch that keeps the user message
persisted_on_llm_error_user(user_message) == <<user_message>>

\* the Err branch of handle_llm_response logs and reacts: the messages it
\* hands to persist_messages are none
persisted_on_llm_error(user_message) == <<>>

\* conversation::Message of the exchange of Telegram message m
\* with a text of 8 bytes
user_message(m) == [role |-> "user", msg |-> m, bytes |-> 8]

assistant_message(m) == [role |-> "assistant", msg |-> m, bytes |-> 8]

\* u64::div_ceil
div_ceil(a, b) == (a + b - 1) \div b

AVG_BYTES_PER_TOKEN == 4

PER_MESSAGE_OVERHEAD == 10

RECURSIVE Sum(_)
Sum(lens) == IF lens = <<>> THEN 0 ELSE Head(lens) + Sum(Tail(lens))

\* an estimator that charges the text only
estimate_tokens_text_only(lens) ==
    (div_ceil(Sum(lens), AVG_BYTES_PER_TOKEN) * 5) \div 4

\* openrouter_api::estimate_tokens of messages given by the byte lengths
\* of their texts: the fold gives (byte_count, message_count)
estimate_tokens(lens) ==
    LET byte_count == Sum(lens)
        message_count == Len(lens)
        text_tokens == div_ceil(byte_count, AVG_BYTES_PER_TOKEN)
        tokens == text_tokens + message_count * PER_MESSAGE_OVERHEAD
    IN  (tokens * 5) \div 4

\* ModelSummary::token_budget of the model in use: the estimate of
\* MaxHistory messages of 8 bytes
model_token_budget == estimate_tokens([i \in 1..MaxHistory |-> 8])

\* conversation.history.iter().map(|m| m.text.as_str()), as byte lengths
text_lens(history) == [i \in 1..Len(history) |-> history[i].bytes]

\* a row of the chats table; has_key: openrouter_api_key is not NULL
Row(is_authorized, has_key) ==
    [is_authorized |-> is_authorized, is_admin |-> FALSE,
     has_key |-> has_key, model_id |-> None, system_prompt |-> None,
     user_name |-> None]

\* a gate that lets every chat pass
ensure_authorized_open(is_authorized) == TRUE

\* App::ensure_authorized: Ok(()) if the conversation is authorized
ensure_authorized(is_authorized) == is_authorized

\* db::load_conversation: the Conversation made of the chat's row, or of
\* the values of the row inserted when there is none
load_conversation(row) ==
    LET r == IF row = None THEN Row(FALSE, FALSE) ELSE row[1]
    IN  [history |-> <<>>, is_authorized |-> r.is_authorized,
         has_key |-> r.has_key, user_name |-> r.user_name]

\* a loader that leaves the newest row out
load_history_omits_newest(stored, history, token_budget) ==
    IF stored = <<>> THEN history
    ELSE SubSeq(stored, 1, Len(stored) - 1)

\* db::load_history: rows newest first, each pushed to the front, stopping
\* after the push that takes the estimate over token_budget
RECURSIVE load_history(_, _, _)
load_history(stored, history, token_budget) ==
    IF stored = <<>> THEN history
    ELSE LET pushed == <<stored[Len(stored)]>> \o history
         IN  IF estimate_tokens(text_lens(pushed)) > token_budget THEN pushed
             ELSE load_history(SubSeq(stored, 1, Len(stored) - 1), pushed,
                               token_budget)

\* Conversation::add_messages: append to the in-memory history
add_messages(history, messages) == history \o messages

\* Conversation::prune_to_token_budget(budget) of the history-based
\* Conversation: drop the oldest messages while the estimate is over budget
RECURSIVE prune_history(_, _)
prune_history(history, budget) ==
    IF history # <<>> /\ estimate_tokens(text_lens(history)) > budget
    THEN prune_history(Tail(history), budget)
    ELSE history

\* a transaction whose inserts stay when it is dropped
rollback_keeps_inserted(history, pending) == history \o pending

\* db::add_messages: an expect that fails inside the closure ends the
\* process before tx.commit(), and the dropped transaction is rolled back
rollback(history, pending) == history

\* db::add_messages: tx.commit() makes every insert of the call durable
commit(history, pending) == history \o pending

\* tiktoken_rs::get_bpe_from_model: the vocabulary of a model name it knows
get_bpe_from_model(model_name) ==
    IF model_name \in {"gpt-4o", "gpt-4"} THEN Some(model_name) ELSE None

\* tiktoken_rs::o200k_base: the vocabulary built into the binary
o200k_base == Some("o200k_base")

\* a Result that is handed on as it is
or_else_keeps_err(result, fallback) == result

\* Result::or_else(|_| fallback)
or_else(result, fallback) == IF result = None THEN fallback ELSE result

\* TokenCounter::new: the vocabulary of the counter, or the panic of expect
TokenCounter_new(model_name) ==
    LET bpe == or_else(get_bpe_from_model(model_name), o200k_base)
    IN  IF bpe = None THEN "panic" ELSE bpe[1]

\* the rows an UPDATE chats .. WHERE chat_id = ?1 affects: chat_id is the
\* primary key of chats
rows_updated(row) == IF row = None THEN 0 ELSE 1

\* a setter that hands the mismatch back to its caller
set_field_lenient(updated) == IF updated = 1 THEN "ok" ELSE "err"

\* db::set_openrouter_api_key, set_model_id, set_system_prompt and
\* set_user_name: if updated != 1 { fatal_panic(..) }
set_field(updated) == IF updated = 1 THEN "ok" ELSE "exit"

\* db::set_is_authorized: Ok(()) if updated == 1, else Err(anyhow!(..))
set_is_authorized(updated) == IF updated = 1 THEN "ok" ELSE "err"

\* the /approve command: what it sends after db::set_is_authorized
approve_reply(outcome) ==
    IF outcome = "err" THEN "Failed to authorize chat" ELSE "Chat approved"

\* the row db::load_conversation inserts for a chat it has no row of:
\* false, false and four times None
default_row == Row(FALSE, FALSE)

\* db::load_conversation: the chats table after the call
insert_if_missing(row) == IF row = None THEN Some(default_row) ELSE row

\* ---------------------------------------------------------- openai_api.rs
\* The bytes of a response body. A line of an event is written with one
\* byte for what it is and the bytes of its text after it:
\*   e  event: response.completed
\*   i  event: response.output_text.delta (any line that is not data:)
\*   D  data: [DONE]
\*   j  data: followed by text that is not JSON
\*   p  data: {"type":"response.completed"}
\*   d  data: {"type":"response.output_text.delta","delta":"<text>"}
\*   o  data: {"type":"response.output_text.delta",
\*             "output":[{"content":[{"type":"output_text","text":"<text>"}]}]}
DataLines == {"D", "j", "p", "d", "o"}

\* the length of the separator at position i of buf, 0 if there is none
separator_at(buf, i) ==
    IF i + 3 <= Len(buf) /\ SubSeq(buf, i, i + 3) = <<"\r", "\n", "\r", "\n">>
    THEN 4
    ELSE IF SubSeq(buf, i, i + 1) = <<"\n", "\n">> THEN 2 ELSE 0

\* find_separator: index (from 0) and length of the first \r\n\r\n or \n\n
find_separator(buf) ==
    LET hits == {i \in 1..(Len(buf) - 1) : separator_at(buf, i) # 0}
    IN  IF hits = {} THEN None
        ELSE LET i == CHOOSE h \in hits : \A k \in hits : h <= k
             IN  Some(<<i - 1, separator_at(buf, i)>>)

\* a pop that throws away what follows the event
pop_next_event_clears(buffer) ==
    LET found == find_separator(buffer)
    IN  IF found = None THEN None
        ELSE Some([event |-> SubSeq(buffer, 1, found[1][1]),
                   buffer |-> <<>>])

\* pop_next_event: the bytes before the first separator are drained as the
\* event, then the separator is drained
pop_next_event(buffer) ==
    LET found == find_separator(buffer)
    IN  IF found = None THEN None
        ELSE LET idx == found[1][1]
                 sep_len == found[1][2]
             IN  Some([event |-> SubSeq(buffer, 1, idx),
                       buffer |-> SubSeq(buffer, idx + sep_len + 1,
                                         Len(buffer))])

\* str::lines
RECURSIVE lines(_)
lines(text) ==
    LET ends == {i \in 1..Len(text) : text[i] = "\n"}
    IN  IF text = <<>> THEN <<>>
        ELSE IF ends = {} THEN <<text>>
        ELSE LET i == CHOOSE e \in ends : \A k \in ends : e <= k
             IN  <<SubSeq(text, 1, i - 1)>>
                 \o lines(SubSeq(text, i + 1, Len(text)))

\* str::trim
RECURSIVE trim(_)
trim(line) ==
    IF line = <<>> THEN line
    ELSE IF Head(line) \in {"\r", "\n", " "} THEN trim(Tail(line))
    ELSE IF line[Len(line)] \in {"\r", "\n", " "}
    THEN trim(SubSeq(line, 1, Len(line) - 1))
    ELSE line

\* serde_json::from_str of the data of a line that is JSON
from_str(data) ==
    CASE Head(data) = "d" ->
            [type |-> "response.output_text.delta", delta |-> Some(Tail(data)),
             output |-> None]
      [] Head(data) = "o" ->
            [type |-> "response.output_text.delta", delta |-> None,
             output |-> Some(<<Tail(data)>>)]
      [] OTHER ->
            [type |-> "response.completed", delta |-> None, output |-> None]

\* chunks.join("")
RECURSIVE join(_)
join(chunks) == IF chunks = <<>> THEN <<>> ELSE Head(chunks) \o join(Tail(chunks))

\* an extraction that also returns an empty delta field
extract_stream_delta_any(value) ==
    IF value.delta # None THEN value.delta
    ELSE IF value.output # None /\ value.output[1] # <<>>
    THEN Some(join(value.output[1]))
    ELSE None

\* extract_stream_delta: the delta field if it is a non-empty string, else
\* the joined text parts of the output array if there is any part
extract_stream_delta(value) ==
    IF value.delta # None /\ value.delta[1] # <<>> THEN value.delta
    ELSE IF value.output # None /\ value.output[1] # <<>>
    THEN Some(join(value.output[1]))
    ELSE None

\* on_delta(delta, finalize).await?: the call fails if it is call number
\* fail_at; every on_delta(String::new(), true).await? is followed by
\* return Ok(full_answer)
on_delta(s, delta, finalize) ==
    LET calls == Append(s.calls, [delta |-> delta, finalize |-> finalize])
    IN  [s EXCEPT !.calls = calls,
                  !.result = IF Len(calls) = s.fail_at THEN "err"
                             ELSE IF finalize THEN "ok" ELSE "running"]

\* send_streaming: the body of for line in event_text.lines()
stream_line(s, raw) ==
    LET line == trim(raw)
    IN  IF line = <<>> THEN s
        ELSE IF Head(line) = "e" THEN on_delta(s, <<>>, TRUE)
        ELSE IF Head(line) \notin DataLines THEN s
        ELSE IF Head(line) = "D" THEN on_delta(s, <<>>, TRUE)
        ELSE IF Head(line) = "j" THEN [s EXCEPT !.result = "err"]
        ELSE LET value == from_str(line)
                 delta == extract_stream_delta(value)
             IN  IF value.type = "response.output_text.delta"
                 THEN IF delta = None THEN s
                      ELSE on_delta([s EXCEPT !.full_answer = @ \o delta[1]],
                                    delta[1], FALSE)
                 ELSE [s EXCEPT !.result = "panic"]

RECURSIVE stream_lines(_, _)
stream_lines(s, rest) ==
    IF s.result # "running" \/ rest = <<>> THEN s
    ELSE stream_lines(stream_line(s, Head(rest)), Tail(rest))

\* send_streaming: while let Some(event) = pop_next_event(&mut buffer)
RECURSIVE stream_events(_)
stream_events(s) ==
    LET popped == pop_next_event(s.buffer)
    IN  IF s.result # "running" \/ popped = None THEN s
        ELSE stream_events(
                stream_lines([s EXCEPT !.buffer = popped[1].buffer],
                             lines(popped[1].event)))

\* send_streaming: stream.next() is Some(Ok(chunk))
stream_chunk(s, chunk) == stream_events([s EXCEPT !.buffer = @ \o chunk])

\* send_streaming without the partial answer: every stream error is returned
stream_error_drops_partial(s) == [s EXCEPT !.result = "err"]

\* send_streaming: stream.next() is Some(Err(err))
stream_error(s) ==
    IF s.full_answer = <<>> THEN [s EXCEPT !.result = "err"]
    ELSE on_delta(s, <<>>, TRUE)

\* send_streaming: stream.next() is None
stream_end(s) == on_delta(s, <<>>, TRUE)

\* ------------------------------------------------------------ commands.rs
LowerCase == <<"a", "b", "c", "d", "e", "f", "g", "h", "i", "j", "k", "l", "m", "n", "o", "p", "q", "r", "s", "t", "u", "v", "w", "x", "y", "z">>

UpperCase == <<"A", "B", "C", "D", "E", "F", "G", "H", "I", "J", "K", "L", "M", "N", "O", "P", "Q", "R", "S", "T", "U", "V", "W", "X", "Y", "Z">>

\* char::to_ascii_lowercase
char_to_ascii_lowercase(ch) ==
    IF \E i \in 1..Len(UpperCase) : UpperCase[i] = ch
    THEN LowerCase[CHOOSE i \in 1..Len(UpperCase) : UpperCase[i] = ch]
    ELSE ch

\* str::to_ascii_lowercase
to_ascii_lowercase(s) == [i \in 1..Len(s) |-> char_to_ascii_lowercase(s[i])]

\* str::eq_ignore_ascii_case
eq_ignore_ascii_case(a, b) == to_ascii_lowercase(a) = to_ascii_lowercase(b)

\* str::trim_start_matches(ch): every leading ch is removed
RECURSIVE trim_start_matches(_, _)
trim_start_matches(s, ch) ==
    IF s # <<>> /\ Head(s) = ch THEN trim_start_matches(Tail(s), ch) ELSE s

\* str::trim_start
RECURSIVE trim_start(_)
trim_start(s) ==
    IF s # <<>> /\ Head(s) \in {"\r", "\n", " "} THEN trim_start(Tail(s))
    ELSE s

\* str::find(pattern): the index of the first character in the set, or None
find(s, pattern) ==
    LET found == {i \in 1..Len(s) : s[i] \in pattern}
    IN  IF found = {} THEN None
        ELSE Some(CHOOSE i \in found : \A j \in found : i <= j)

\* str::split_once(ch): the parts before and after the first ch, or None
split_once(s, ch) ==
    LET at == find(s, {ch})
    IN  IF at = None THEN None
        ELSE Some(<<SubSeq(s, 1, at[1] - 1), SubSeq(s, at[1] + 1, Len(s))>>)

\* str::split_whitespace: the words of a text
RECURSIVE split_whitespace(_)
split_whitespace(s) ==
    LET t == trim_start(s)
        at == find(t, {"\r", "\n", " "})
    IN  IF t = <<>> THEN <<>>
        ELSE IF at = None THEN <<t>>
        ELSE <<SubSeq(t, 1, at[1] - 1)>>
                 \o split_whitespace(SubSeq(t, at[1], Len(t)))

\* str::parse::<i64>: Ok for an optional sign and digits (no overflow with
\* the numbers used here)
parse_i64(word) ==
    LET digits == IF word # <<>> /\ Head(word) \in {"+", "-"} THEN Tail(word)
                  ELSE word
    IN  IF digits # <<>>
           /\ \A i \in 1..Len(digits) : digits[i] \in {"0", "1", "2"}
        THEN Some(word) ELSE None

\* CommandArg::from_text
from_text(text) ==
    IF text = None THEN [arg |-> "Empty"]
    ELSE LET trimmed == trim(text[1])
         IN  IF trimmed = <<>> THEN [arg |-> "Empty"]
             ELSE IF eq_ignore_ascii_case(trimmed, <<"n", "o", "n", "e">>)
             THEN [arg |-> "None"]
             ELSE [arg |-> "Text", text |-> trimmed]

\* Result<Command, String>
Ok(command, arg) == [ok |-> TRUE, command |-> command, arg |-> arg]
Err(message_) == [ok |-> FALSE, command |-> message_, arg |-> [arg |-> "Empty"]]

NoArg == [arg |-> "Empty"]

\* the "approve" arm of parse_command
parse_approve(args_part) ==
    IF args_part = None THEN Ok("Approve", [arg |-> "Empty"])
    ELSE LET args == split_whitespace(args_part[1])
         IN  IF Len(args) # 2 THEN Ok("Approve", [arg |-> "Invalid"])
             ELSE IF parse_i64(args[1]) = None
             THEN Ok("Approve", [arg |-> "Invalid"])
             ELSE IF to_ascii_lowercase(args[2]) \in {<<"t", "r", "u", "e">>, <<"1">>}
             THEN Ok("Approve", [arg |-> "ApproveChat", chat_id |-> args[1],
                                 is_authorized |-> TRUE])
             ELSE IF to_ascii_lowercase(args[2]) \in {<<"f", "a", "l", "s", "e">>, <<"0">>}
             THEN Ok("Approve", [arg |-> "ApproveChat", chat_id |-> args[1],
                                 is_authorized |-> FALSE])
             ELSE Ok("Approve", [arg |-> "Invalid"])

\* parse_command: match cmd_name.to_ascii_lowercase().as_str()
match_cmd_name(cmd_name, args_part) ==
    LET name == to_ascii_lowercase(cmd_name)
        bare(command) == IF args_part = None THEN Ok(command, NoArg)
                         ELSE Err("Unknown command")
    IN  CASE name = <<"h", "e", "l", "p">> -> bare("Help")
          [] name = <<"s", "t", "a", "r", "t">> -> bare("Start")
          [] name = <<"m", "o", "d", "e", "l", "s">> -> bare("Models")
          [] name = <<"m", "o", "d", "e", "l">> -> Ok("Model", from_text(args_part))
          [] name = <<"k", "e", "y">> -> Ok("Key", from_text(args_part))
          [] name = <<"s", "y", "s", "t", "e", "m", "p", "r", "o", "m", "p", "t">> -> Ok("SystemPrompt", from_text(args_part))
          [] name = <<"a", "p", "p", "r", "o", "v", "e">> -> parse_approve(args_part)
          [] OTHER -> Err("Unknown command")

\* commands::parse_command(text, bot_username)
parse_command(text, bot_username) ==
    LET trimmed == trim(text)
        without_slash == trim_start_matches(trimmed, "/")
        idx == find(without_slash, {"\r", "\n", " "})
        cmd_part == IF idx = None THEN without_slash
                    ELSE SubSeq(without_slash, 1, idx[1] - 1)
        args == IF idx = None THEN None
                ELSE Some(trim_start(SubSeq(without_slash, idx[1],
                                            Len(without_slash))))
        args_part == IF args # None /\ args[1] = <<>> THEN None ELSE args
        split_ == split_once(cmd_part, "@")
        cmd_name == IF split_ = None THEN cmd_part ELSE split_[1][1]
        mention == IF split_ = None THEN None ELSE Some(split_[1][2])
    IN  IF trimmed = <<>> \/ Head(trimmed) # "/"
        THEN Err("Unknown command")
        ELSE IF mention # None
                /\ ~eq_ignore_ascii_case(mention[1], bot_username)
        THEN Ok("Ignore", NoArg)
        ELSE match_cmd_name(cmd_name, args_part)

\* Rust's min, and clamp(low, high)
min(a, b) == IF a <= b THEN a ELSE b
clamp(x, low, high) == IF x < low THEN low ELSE IF x > high THEN high ELSE x

\* main.rs mask_api_key(key): what is shown of the key
mask_api_key(key) ==
    IF Len(key) <= 8
    THEN SubSeq(key, 1, min(Len(key), 3)) \o <<"*", "*", "*">>
    ELSE LET prefix_len == min(Len(key), 11)
             suffix_len == clamp(saturating_sub(Len(key), prefix_len), 1, 3)
             prefix == SubSeq(key, 1, prefix_len)
             suffix == SubSeq(key, saturating_sub(Len(key), suffix_len) + 1,
                              Len(key))
         IN  prefix \o <<".", ".", ".">> \o suffix

\* ASCII upper case of the letters of a word, and of its first letter
to_ascii_uppercase(s) ==
    [i \in 1..Len(s) |->
        IF \E k \in 1..Len(LowerCase) : LowerCase[k] = s[i]
        THEN UpperCase[CHOOSE k \in 1..Len(LowerCase) : LowerCase[k] = s[i]]
        ELSE s[i]]

capitalize(s) == to_ascii_uppercase(SubSeq(s, 1, 1)) \o SubSeq(s, 2, Len(s))

\* self.bot_username
bot_username_ == <<"B", "o", "t">>

\* the command names of the help text, the name the parser has for the
\* system prompt, and a name that is no command
HelpNames ==
    {<<"h", "e", "l", "p">>, <<"s", "t", "a", "r", "t">>, <<"m", "o", "d", "e", "l", "s">>,
     <<"m", "o", "d", "e", "l">>, <<"k", "e", "y">>, <<"a", "p", "p", "r", "o", "v", "e">>,
     <<"s", "y", "s", "t", "e", "m", "_", "p", "r", "o", "m", "p", "t">>}

CommandNames == HelpNames \cup {<<"s", "y", "s", "t", "e", "m", "p", "r", "o", "m", "p", "t">>, <<"f", "o", "o">>}

LetterCases(name) == {name, to_ascii_uppercase(name), capitalize(name)}

\* no mention, the bot in two spellings, another bot
Mentions == {<<>>, <<"@", "B", "o", "t">>, <<"@", "b", "o", "t">>, <<"@", "b", "o", "b">>}

\* the bot's own mentions
OwnMentions == {<<>>, <<"@", "B", "o", "t">>, <<"@", "b", "o", "t">>}

ArgTexts == {<<>>, <<" ">>, <<" ", "n", "o", "n", "e">>, <<" ", "x">>, <<" ", "1", "2", " ", "1">>, <<" ", "1", "2", " ", "x">>}

\* the texts parse_command is given
CommandTexts ==
    {prefix \o spelled \o mention \o args :
         prefix \in {<<"/">>, <<" ", "/">>},
         spelled \in UNION {LetterCases(name) : name \in CommandNames},
         mention \in Mentions, args \in ArgTexts}
    \cup {<<"h", "i">>}

\* the keys mask_api_key is given
Keys == UNION {[1..n -> {"a", "b"}] : n \in 0..MaxKey}

\* no command is being handled
CmdIdle ==
    [pc |-> "idle", text |-> <<>>, command |-> Err("none"), key |-> <<>>,
     masked |-> <<>>]

\* -------------------------------- main.rs: process_message and /approve
\* the chats: two private admin chats, a private chat that is approved and
\* a group that has never written to the bot
GateChats == {"A1", "A2", "U", "G"}

\* the handlers that run at the same time
GateTasks == {"t1", "t2"}

\* msg.chat.is_group() || is_supergroup() || is_channel()
is_public(chat) == chat = "G"

\* a message: its chat, what its text is (a text for the model, /approve
\* with a chat id and a value, another command), whether it mentions or
\* replies to the bot, whether a bot account sent it
GateMessage(chat, kind, target, value, addressed, from_bot) ==
    [chat |-> chat, kind |-> kind, target |-> target, value |-> value,
     addressed |-> addressed, from_bot |-> from_bot]

GateMessages ==
    {GateMessage(chat, "approve", target, value, TRUE, FALSE) :
         chat \in {"A1", "A2"}, target \in {"U", "G"}, value \in BOOLEAN}
    \cup {GateMessage("U", "approve", "G", TRUE, TRUE, FALSE),
          GateMessage("U", "command", "U", TRUE, TRUE, FALSE),
          GateMessage("G", "text", "G", TRUE, FALSE, FALSE),
          GateMessage("G", "text", "G", TRUE, TRUE, FALSE),
          GateMessage("G", "text", "G", TRUE, TRUE, TRUE),
          GateMessage("G", "approve", "U", FALSE, TRUE, FALSE)}

\* the row of a chat: the two flags of the chats table
GateRow(is_authorized, is_admin) ==
    [is_authorized |-> is_authorized, is_admin |-> is_admin]

\* the database and the map before the first message, no handler running
GateIdle ==
    [rows |-> [c \in GateChats |->
                   IF c = "G" THEN None
                   ELSE Some(GateRow(TRUE, c \in {"A1", "A2"}))],
     cache |-> [c \in GateChats |-> None],
     mem |-> [c \in GateChats |-> 0],
     dur |-> [c \in GateChats |-> 0],
     h |-> [t \in GateTasks |->
                [pc |-> "idle", msg |-> GateMessage("U", "none", "U", FALSE,
                                                     FALSE, FALSE),
                 result |-> "none"]]]

\* /approve for every chat: the is_admin test left out
approve_allowed_any(is_admin) == TRUE

\* Command::Approve: if !is_admin { send "You are not authorized to use
\* /approve."; return }
approve_allowed(is_admin) == is_admin

\* get_conversation(chat): a chat that is not in the map gets its row (a
\* default one is inserted if it has none) and its stored history
gate_get_conversation(g, chat) ==
    IF g.cache[chat] # None THEN g
    ELSE LET row == IF g.rows[chat] = None THEN GateRow(FALSE, FALSE)
                    ELSE g.rows[chat][1]
         IN  [g EXCEPT !.rows[chat] = Some(row),
                       !.cache[chat] = Some(row),
                       !.mem[chat] = g.dur[chat]]

\* the handler goes on at pc
gate_goto(g, t, pc) == [g EXCEPT !.h[t].pc = pc]

\* process_message returns
gate_done(g, t, result) ==
    [g EXCEPT !.h[t].pc = "done", !.h[t].result = result]

\* -------------------------------------------------------------- models.rs
\* the tasks: 0 is the refresh task of spawn_model_refresh, the others are
\* message handlers
Tasks == 0..NumHandlers

\* tokio::sync::RwLock: the guard of the mode can be handed out now
permits(s, mode) == ~s.writer /\ (mode = "write" => s.readers = 0)

\* the guard is handed to the task, which goes on at `then`
grant(s, task, mode, then) ==
    [s EXCEPT !.readers = IF mode = "read" THEN @ + 1 ELSE @,
              !.writer = (mode = "write"),
              !.pc[task] = then]

\* models.read().await and models.write().await: the lock is fair, a request
\* is served at once only if no request is queued, and queued behind the
\* others if not
acquire(s, task, mode, then) ==
    IF s.queue = <<>> /\ permits(s, mode) THEN grant(s, task, mode, then)
    ELSE [s EXCEPT !.queue = Append(@, [task |-> task, mode |-> mode,
                                        then |-> then]),
                   !.pc[task] = "blocked"]

\* the requests at the head of the queue are served while they can be
RECURSIVE wake(_)
wake(s) ==
    IF s.queue # <<>> /\ permits(s, Head(s.queue).mode)
    THEN LET head == Head(s.queue)
         IN  wake(grant([s EXCEPT !.queue = Tail(@)],
                        head.task, head.mode, head.then))
    ELSE s

\* a guard of the models lock is dropped
release(s, mode) ==
    wake([s EXCEPT !.readers = IF mode = "read" THEN @ - 1 ELSE @,
                   !.writer = IF mode = "write" THEN FALSE ELSE @])

\* ------------------------------------------------------------ bookkeeping
Call(op, turn_id, text, max, sys) ==
    [op |-> op, turn_id |-> turn_id, text |-> text, max |-> max, sys |-> sys]

NoCall == Call("none", 0, <<>>, 0, 0)

NoUndo == [stage |-> "none", turn_id |-> 0, turns |-> <<>>, prompt_tokens |-> 0]

LoopIdle == [pc |-> "idle", max |-> 0, sys |-> 0, exit |-> "none"]

SendIdle == [pc |-> "idle", text |-> <<>>, limit |-> 1,
             plan |-> <<>>, out |-> <<>>]

StreamIdle == [pc |-> "idle", buffer |-> <<>>, emitted |-> <<>>]

NotReceived == [pc |-> "new", chat |-> "A", plan |-> <<>>, sent |-> 0,
                result |-> "none"]

DbCall(history, row) ==
    [pc |-> "idle", op |-> "none", history |-> history, row |-> row,
     arg |-> <<>>, pending |-> <<>>, before |-> <<>>, loaded |-> <<>>,
     budget |-> 0, updated |-> 1, outcome |-> "none", reply |-> "none"]

DbIdle == DbCall(<<>>, None)

TokIdle ==
    [pc |-> "idle", lens |-> <<>>, grown |-> <<>>, est |-> 0, est_grown |-> 0,
     model_name |-> "none", bpe |-> "none"]

StIdle ==
    [pc |-> "idle", wire |-> <<>>, pos |-> 0, body |-> "none", split |-> FALSE,
     fail_at |-> 0,
     buffer |-> <<>>, full_answer |-> <<>>, calls |-> <<>>,
     result |-> "none"]

\* no guard is held, no conversation is loaded, every task is idle
SyncIdle ==
    [readers |-> 0, writer |-> FALSE, queue |-> <<>>, mutex |-> 0,
     cached |-> FALSE, pc |-> [t \in Tasks |-> "idle"],
     kind |-> [t \in Tasks |-> "none"]]

Init ==
    /\ conv = DefaultConversation
    /\ pre = DefaultConversation
    /\ last = NoCall
    /\ undo = NoUndo
    /\ issued = <<>>
    /\ loop = LoopIdle
    /\ hpc = [h \in Handlers |-> "idle"]
    /\ hturn = [h \in Handlers |-> 0]
    /\ tx = SendIdle
    /\ sb = StreamIdle
    /\ lock = 0
    /\ cache = [c \in Chats |-> None]
    /\ rows = <<>>
    /\ dbhist = [c \in Chats |-> <<>>]
    /\ app = [m \in Msgs |-> NotReceived]
    /\ outbox = {}
    /\ reacted = {}
    /\ contacts = [c \in Chats |-> [loads |-> 0, inserts |-> 0]]
    /\ db = DbIdle
    /\ tok = TokIdle
    /\ st = StIdle
    /\ sync = SyncIdle
    /\ gate = GateIdle
    /\ cmd = CmdIdle

\* ------------------------------------------------ Spec: one call per step
RecordUserMessage ==
    \E user_text \in Texts :
        LET r == record_user_message(conv, user_text)
        IN  /\ loop.pc = "idle"
            /\ conv.next_turn_id < MaxTurns
            /\ r.conv.prompt_tokens <= MaxPrompt
            /\ conv' = r.conv
            /\ pre' = conv
            /\ last' = Call("record_user_message", r.turn_id, user_text, 0, 0)
            /\ undo' = [stage |-> "opened", turn_id |-> r.turn_id,
                        turns |-> conv.turns,
                        prompt_tokens |-> conv.prompt_tokens]
            /\ issued' = Append(issued, r.turn_id)
            /\ loop' = LoopIdle
            /\ UNCHANGED <<taskVars, sendVars, appVars, dbVars, tokVars, streamVars, hpc, hturn>>

RecordAssistantResponse ==
    \E turn_id \in TurnIds, answer \in Texts :
        LET c == record_assistant_response(conv, turn_id, answer)
        IN  /\ loop.pc = "idle"
            /\ c.prompt_tokens <= MaxPrompt
            /\ conv' = c
            /\ pre' = conv
            /\ last' = Call("record_assistant_response", turn_id, answer, 0, 0)
            /\ undo' = NoUndo
            /\ loop' = LoopIdle
            /\ UNCHANGED <<taskVars, sendVars, appVars, dbVars, tokVars, streamVars, issued, hpc, hturn>>

DiscardTurn ==
    \E turn_id \in TurnIds :
        /\ loop.pc = "idle"
        /\ conv' = discard_turn(conv, turn_id)
        /\ pre' = conv
        /\ last' = Call("discard_turn", turn_id, <<>>, 0, 0)
        /\ undo' = IF undo.stage = "opened" /\ undo.turn_id = turn_id
                   THEN [undo EXCEPT !.stage = "discarded"]
                   ELSE NoUndo
        /\ loop' = LoopIdle
        /\ UNCHANGED <<taskVars, sendVars, appVars, dbVars, tokVars, streamVars, issued, hpc, hturn>>

PruneToTokenBudget ==
    \E max_prompt_tokens \in Budgets, system_prompt_tokens \in Reserves :
        /\ loop.pc = "idle"
        /\ conv' = prune_to_token_budget(conv, max_prompt_tokens,
                                         system_prompt_tokens)
        /\ pre' = conv
        /\ last' = Call("prune_to_token_budget", 0, <<>>, max_prompt_tokens,
                        system_prompt_tokens)
        /\ undo' = NoUndo
        /\ UNCHANGED <<taskVars, sendVars, appVars, dbVars, tokVars, streamVars, issued, loop, hpc, hturn>>

\* the request for the provider is built; the conversation is only read
BuildChatRequest ==
    \E system_prompt \in {None, Some(<<"s">>)} :
        /\ loop.pc = "idle"
        /\ last' = [op |-> "build_chat_request", turn_id |-> 0,
                    text |-> <<>>, max |-> 0, sys |-> 0,
                    system_prompt |-> system_prompt,
                    request |-> build_chat_request(conv, system_prompt)]
        /\ pre' = conv
        /\ UNCHANGED <<taskVars, sendVars, appVars, dbVars, tokVars, streamVars, conv, undo, issued, loop, hpc, hturn>>

Next ==
    \/ RecordUserMessage
    \/ RecordAssistantResponse
    \/ DiscardTurn
    \/ PruneToTokenBudget
    \/ BuildChatRequest

Spec == Init /\ [][Next]_vars

\* ------------------ SpecLoop: prune_to_token_budget one iteration per step
\* the call begins; no other method runs until it returns (&mut self)
PruneCall ==
    \E max_prompt_tokens \in Budgets, system_prompt_tokens \in Reserves :
        /\ loop.pc = "idle"
        /\ loop' = [pc |-> "loop", max |-> max_prompt_tokens,
                    sys |-> system_prompt_tokens, exit |-> "none"]
        /\ pre' = conv
        /\ last' = Call("prune_running", 0, <<>>, max_prompt_tokens,
                        system_prompt_tokens)
        /\ undo' = NoUndo
        /\ UNCHANGED <<taskVars, sendVars, appVars, dbVars, tokVars, streamVars, conv, issued, hpc, hturn>>

\* loop condition true, front turn complete: pop it
PruneEvict ==
    /\ loop.pc = "loop"
    /\ over_budget(conv, loop.max, loop.sys)
    /\ front_is_complete(conv)
    /\ conv' = pop_front(conv)
    /\ UNCHANGED <<taskVars, sendVars, appVars, dbVars, tokVars, streamVars, pre, last, undo, issued, loop, hpc, hturn>>

\* loop condition true, no complete front turn: warn and break
PruneBreak ==
    /\ loop.pc = "loop"
    /\ over_budget(conv, loop.max, loop.sys)
    /\ ~front_is_complete(conv)
    /\ loop' = [loop EXCEPT !.pc = "idle", !.exit = "break"]
    /\ last' = Call("prune_to_token_budget", 0, <<>>, loop.max, loop.sys)
    /\ UNCHANGED <<taskVars, sendVars, appVars, dbVars, tokVars, streamVars, conv, pre, undo, issued, hpc, hturn>>

\* loop condition false: the call returns
PruneReturn ==
    /\ loop.pc = "loop"
    /\ ~over_budget(conv, loop.max, loop.sys)
    /\ loop' = [loop EXCEPT !.pc = "idle", !.exit = "within"]
    /\ last' = Call("prune_to_token_budget", 0, <<>>, loop.max, loop.sys)
    /\ UNCHANGED <<taskVars, sendVars, appVars, dbVars, tokVars, streamVars, conv, pre, undo, issued, hpc, hturn>>

\* between two prune calls the other methods run as whole calls; pre and
\* last follow only the prune call here
Untracked ==
    /\ pre' = DefaultConversation
    /\ last' = NoCall
    /\ undo' = NoUndo
    /\ loop' = LoopIdle
    /\ UNCHANGED <<taskVars, sendVars, appVars, dbVars, tokVars, streamVars, hpc, hturn>>

LoopRecordUserMessage ==
    \E user_text \in Texts :
        LET r == record_user_message(conv, user_text)
        IN  /\ loop.pc = "idle"
            /\ conv.next_turn_id < MaxTurns
            /\ r.conv.prompt_tokens <= MaxPrompt
            /\ conv' = r.conv
            /\ issued' = Append(issued, r.turn_id)
            /\ Untracked

LoopRecordAssistantResponse ==
    \E turn_id \in TurnIds, answer \in Texts :
        LET c == record_assistant_response(conv, turn_id, answer)
        IN  /\ loop.pc = "idle"
            /\ c.prompt_tokens <= MaxPrompt
            /\ conv' = c
            /\ issued' = issued
            /\ Untracked

LoopDiscardTurn ==
    \E turn_id \in TurnIds :
        /\ loop.pc = "idle"
        /\ conv' = discard_turn(conv, turn_id)
        /\ issued' = issued
        /\ Untracked

NextLoop ==
    \/ LoopRecordUserMessage
    \/ LoopRecordAssistantResponse
    \/ LoopDiscardTurn
    \/ PruneCall
    \/ PruneEvict
    \/ PruneBreak
    \/ PruneReturn

SpecLoop == Init /\ [][NextLoop]_vars

\* a call that has begun keeps running until it returns
LoopFair == SpecLoop /\ WF_vars(PruneEvict \/ PruneBreak \/ PruneReturn)

\* ------------------------- SpecChat: concurrent message handlers of a chat
\* prepare_llm_request: under the conversation lock, open the pending turn
\* for the user message, prune to the model's budget and build the request;
\* the lock is dropped before the provider call.
Prepare(h) ==
    \E user_text \in Texts, max_prompt_tokens \in Budgets,
       system_prompt_tokens \in Reserves :
        LET r == record_user_message(conv, user_text)
        IN  /\ hpc[h] = "idle"
            /\ conv.next_turn_id < MaxTurns
            /\ r.conv.prompt_tokens <= MaxPrompt
            /\ conv' = prune_to_token_budget(r.conv, max_prompt_tokens,
                                             system_prompt_tokens)
            /\ hturn' = [hturn EXCEPT ![h] = r.turn_id]
            /\ hpc' = [hpc EXCEPT ![h] = "awaiting"]
            /\ issued' = Append(issued, r.turn_id)
            /\ UNCHANGED <<taskVars, sendVars, appVars, dbVars, tokVars, streamVars, pre, last, undo, loop>>

\* openrouter_api::send returns Ok; no lock is held
ProviderAnswers(h) ==
    /\ hpc[h] = "awaiting"
    /\ hpc' = [hpc EXCEPT ![h] = "answered"]
    /\ UNCHANGED <<taskVars, sendVars, appVars, dbVars, tokVars, streamVars, conv, pre, last, undo, issued, loop, hturn>>

\* openrouter_api::send returns Err; no lock is held
ProviderFails(h) ==
    /\ hpc[h] = "awaiting"
    /\ hpc' = [hpc EXCEPT ![h] = "failed"]
    /\ UNCHANGED <<taskVars, sendVars, appVars, dbVars, tokVars, streamVars, conv, pre, last, undo, issued, loop, hturn>>

\* handle_llm_response, Ok: under the lock, record the answer on the turn
HandleAnswer(h) ==
    \E answer \in Texts :
        /\ hpc[h] = "answered"
        /\ conv' = record_assistant_response(conv, hturn[h], answer)
        /\ hpc' = [hpc EXCEPT ![h] = "idle"]
        /\ UNCHANGED <<taskVars, sendVars, appVars, dbVars, tokVars, streamVars, pre, last, undo, issued, loop, hturn>>

\* handle_llm_response, Err: under the lock, discard the turn
HandleFailure(h) ==
    /\ hpc[h] = "failed"
    /\ conv' = discard_turn(conv, hturn[h])
    /\ hpc' = [hpc EXCEPT ![h] = "idle"]
    /\ UNCHANGED <<taskVars, sendVars, appVars, dbVars, tokVars, streamVars, pre, last, undo, issued, loop, hturn>>

NextChat ==
    \/ \E h \in Handlers : Prepare(h)
    \/ \E h \in Handlers : ProviderAnswers(h)
    \/ \E h \in Handlers : ProviderFails(h)
    \/ \E h \in Handlers : HandleAnswer(h)
    \/ \E h \in Handlers : HandleFailure(h)

SpecChat == Init /\ [][NextChat]_vars

\* ---------------- SpecSend: one answer through both chunkers, send by send
\* bot_split_send is called with an answer: the messages it is going to
\* send are those of its loop; the same answer is held for the stream
BotSplitSend ==
    /\ tx.pc = "idle"
    /\ sb.pc = "idle"
    /\ \E text \in Strings, limit \in Limits :
           LET plan == bot_split_send(text, limit)
           IN  tx' = [pc |-> IF plan = <<>> THEN "ok" ELSE "sending",
                      text |-> text, limit |-> limit,
                      plan |-> plan, out |-> <<>>]
    /\ sb' = [pc |-> "open", buffer |-> <<>>, emitted |-> <<>>]
    /\ UNCHANGED <<taskVars, convVars, appVars, dbVars, tokVars, streamVars>>

\* send_message_checked delivers the next message (or its assert! fires);
\* after the last one bot_split_send returns Ok(())
SendMessageChecked ==
    /\ tx.pc = "sending"
    /\ LET text == tx.plan[Len(tx.out) + 1]
       IN  IF send_message_checked_asserts(text, tx.limit)
           THEN tx' = [tx EXCEPT
                    !.out = Append(@, text),
                    !.pc = IF Len(tx.out) + 1 = Len(tx.plan)
                           THEN "ok" ELSE "sending"]
           ELSE tx' = [tx EXCEPT !.pc = "panic"]
    /\ UNCHANGED <<taskVars, convVars, appVars, dbVars, tokVars, streamVars, sb>>

\* bot.send_message(..).await? fails: bot_split_send returns the error
SendMessageFails ==
    /\ tx.pc = "sending"
    /\ send_message_checked_asserts(tx.plan[Len(tx.out) + 1], tx.limit)
    /\ tx' = [tx EXCEPT !.pc = "err"]
    /\ UNCHANGED <<taskVars, convVars, appVars, dbVars, tokVars, streamVars, sb>>

\* the answer arrives as a single delta: append, then emit while full
StreamDelta ==
    /\ sb.pc = "open"
    /\ LET r == emit_while_full(sb.buffer \o tx.text, sb.emitted, tx.limit)
       IN  sb' = [pc |-> "fed", buffer |-> r.buffer, emitted |-> r.emitted]
    /\ UNCHANGED <<taskVars, convVars, appVars, dbVars, tokVars, streamVars, tx>>

\* finalize: flush any non-empty remainder as a final chunk
StreamFinalize ==
    /\ sb.pc = "fed"
    /\ sb' = [pc |-> "done", buffer |-> <<>>,
              emitted |-> sb.emitted \o send_non_empty(sb.buffer)]
    /\ UNCHANGED <<taskVars, convVars, appVars, dbVars, tokVars, streamVars, tx>>

\* the caller has its result and the stream is closed: ready for the next
SendReturn ==
    /\ tx.pc \in {"ok", "err", "panic"}
    /\ sb.pc = "done"
    /\ tx' = SendIdle
    /\ sb' = StreamIdle
    /\ UNCHANGED <<taskVars, convVars, appVars, dbVars, tokVars, streamVars>>

NextSend ==
    \/ BotSplitSend
    \/ SendMessageChecked
    \/ SendMessageFails
    \/ StreamDelta
    \/ StreamFinalize
    \/ SendReturn

SpecSend == Init /\ [][NextSend]_vars

\* ------- SpecFormatted: one text through bot_split_send_formatted, send by
\* ------- send
\* bot_split_send_formatted is called with a text: the messages it will
\* send are those of its loop
BotSplitSendFormatted ==
    /\ tx.pc = "idle"
    /\ \E text \in Strings, limit \in Limits :
           LET run == bot_split_send_formatted(text, limit)
           IN  tx' = [pc |-> IF run.sent # <<>> THEN "sending"
                             ELSE IF run.fatal THEN "fatal" ELSE "ok",
                      text |-> text, limit |-> limit,
                      plan |-> run.sent, out |-> <<>>]
    /\ UNCHANGED <<taskVars, convVars, appVars, dbVars, tokVars, streamVars, sb>>

\* send_formatted_checked delivers the next message (or its assert! fires);
\* after the last one the loop ends with Ok(()) or reaches the line over
\* the limit
SendFormattedChecked ==
    /\ tx.pc = "sending"
    /\ LET text == tx.plan[Len(tx.out) + 1]
       IN  IF send_message_checked_asserts(text, tx.limit)
           THEN tx' = [tx EXCEPT
                    !.out = Append(@, text),
                    !.pc = IF Len(tx.out) + 1 < Len(tx.plan) THEN "sending"
                           ELSE IF bot_split_send_formatted(
                                       tx.text, tx.limit).fatal
                           THEN "fatal" ELSE "ok"]
           ELSE tx' = [tx EXCEPT !.pc = "panic"]
    /\ UNCHANGED <<taskVars, convVars, appVars, dbVars, tokVars, streamVars, sb>>

\* bot.send_message(..).await? fails: the error is returned
SendFormattedFails ==
    /\ tx.pc = "sending"
    /\ send_message_checked_asserts(tx.plan[Len(tx.out) + 1], tx.limit)
    /\ tx' = [tx EXCEPT !.pc = "err"]
    /\ UNCHANGED <<taskVars, convVars, appVars, dbVars, tokVars, streamVars, sb>>

\* the caller has its result: ready for the next text
FormattedReturn ==
    /\ tx.pc \in {"ok", "err"}
    /\ tx' = SendIdle
    /\ UNCHANGED <<taskVars, convVars, appVars, dbVars, tokVars, streamVars, sb>>

NextFormatted ==
    \/ BotSplitSendFormatted
    \/ SendFormattedChecked
    \/ SendFormattedFails
    \/ FormattedReturn

SpecFormatted == Init /\ [][NextFormatted]_vars

\* ------------- SpecApp: process_message of concurrently handled messages
\* the chats rows the bot starts with: approved with a key, approved
\* without one, and not approved
Rows == {Row(TRUE, TRUE), Row(TRUE, FALSE), Row(FALSE, FALSE)}

\* the answers of the provider: one that fits a message, one that does not
Answers == {[i \in 1..n |-> "a"] : n \in {1, MaxLen}}

\* the positions of process_message at which get_conversation is awaited
Wanting == {"name_want", "auth_want", "prepare_want", "persist_want"}

Loading == {"name_load", "auth_load", "prepare_load", "persist_load"}

Holding == {"name_held", "auth_held", "prepare_held", "persist_held"}

Section(pc) ==
    CASE pc \in {"name_want", "name_load", "name_held"} -> "name"
      [] pc \in {"auth_want", "auth_load", "auth_held"} -> "auth"
      [] pc \in {"prepare_want", "prepare_load", "prepare_held"} -> "prepare"
      [] OTHER -> "persist"

LoadPc(pc) ==
    CASE Section(pc) = "name" -> "name_load"
      [] Section(pc) = "auth" -> "auth_load"
      [] Section(pc) = "prepare" -> "prepare_load"
      [] OTHER -> "persist_load"

HeldPc(pc) ==
    CASE Section(pc) = "name" -> "name_held"
      [] Section(pc) = "auth" -> "auth_held"
      [] Section(pc) = "prepare" -> "prepare_held"
      [] OTHER -> "persist_held"

\* the history a chat has from an earlier run of the bot: none, or one
\* exchange
Stored == {<<>>, <<user_message(0), assistant_message(0)>>}

\* init: the bot starts on a database holding the rows and the history of
\* the chats it has seen, and with an empty map of conversations
Deploy ==
    /\ DOMAIN rows = {}
    /\ rows' \in [Chats -> {None} \cup {Some(row) : row \in Rows}]
    /\ dbhist' \in [Chats -> Stored]
    /\ \A c \in Chats : rows'[c] = None => dbhist'[c] = <<>>
    /\ UNCHANGED <<taskVars, convVars, sendVars, dbVars, tokVars, streamVars, contacts,
                   lock, cache, app, outbox, reacted>>

\* teloxide hands the next text message that is addressed to the bot (of a
\* private chat, or of a group and mentioning the bot) to process_message,
\* which starts with maybe_update_user_name; the chat of the first message
\* is the one called A
Receive(m) ==
    \E chat \in IF m = 1 THEN {"A"} ELSE Chats :
        /\ app[m].pc = "new"
        /\ \A k \in 1..(m - 1) : app[k].pc # "new"
        /\ DOMAIN rows # {}
        /\ app' = [app EXCEPT ![m] = [@ EXCEPT !.pc = "name_want",
                                               !.chat = chat]]
        /\ UNCHANGED <<taskVars, convVars, sendVars, dbVars, tokVars, streamVars, contacts,
                   lock, cache, rows, dbhist,
                       outbox, reacted>>

\* get_conversation: the mutex is taken; a chat not in the map is loaded
\* next, with the mutex held
GetConversation(m) ==
    /\ app[m].pc \in Wanting
    /\ mutex_free(lock)
    /\ lock' = m
    /\ app' = [app EXCEPT ![m].pc =
                   IF cache[app[m].chat] = None THEN LoadPc(app[m].pc)
                   ELSE HeldPc(app[m].pc)]
    /\ UNCHANGED <<taskVars, convVars, sendVars, dbVars, tokVars, streamVars, contacts,
                   cache, rows, dbhist, outbox, reacted>>

\* the Vacant branch of get_conversation: load_conversation, load_history,
\* entry.insert
LoadConversation(m) ==
    /\ app[m].pc \in Loading
    /\ LET chat == app[m].chat
           conversation == load_conversation(rows[chat])
       IN  /\ cache' = [cache EXCEPT ![chat] =
                 Some([conversation EXCEPT !.history =
                        load_history(dbhist[chat], <<>>, model_token_budget)])]
           /\ rows' = [rows EXCEPT ![chat] = insert_if_missing(@)]
           /\ contacts' = [contacts EXCEPT
                 ![chat].loads = @ + 1,
                 ![chat].inserts = IF rows[chat] = None THEN @ + 1 ELSE @]
    /\ app' = [app EXCEPT ![m].pc = HeldPc(app[m].pc)]
    /\ UNCHANGED <<taskVars, convVars, sendVars, dbVars, tokVars, streamVars,
                   lock, dbhist, outbox, reacted>>

\* maybe_update_user_name with the guard: set conv.user_name if it differs
UpdateUserName(m) ==
    /\ app[m].pc = "name_held"
    /\ LET chat == app[m].chat
           conv_ == cache[chat][1]
           should_update == conv_.user_name # Some(chat)
       IN  /\ cache' = [cache EXCEPT ![chat] =
                   Some([conv_ EXCEPT !.user_name = Some(chat)])]
           /\ app' = [app EXCEPT ![m].pc =
                   IF should_update THEN "name_db" ELSE "auth_want"]
    /\ lock' = 0
    /\ UNCHANGED <<taskVars, convVars, sendVars, dbVars, tokVars, streamVars, contacts,
                   rows, dbhist, outbox, reacted>>

\* db::set_user_name after the guard is gone
SetUserName(m) ==
    /\ app[m].pc = "name_db"
    /\ rows' = [rows EXCEPT ![app[m].chat] =
                    Some([@[1] EXCEPT !.user_name = Some(app[m].chat)])]
    /\ app' = [app EXCEPT ![m].pc = "auth_want"]
    /\ UNCHANGED <<taskVars, convVars, sendVars, dbVars, tokVars, streamVars, contacts,
                   lock, cache, dbhist, outbox, reacted>>

\* is_from_bot(&msg): the message was sent by a bot account (in a group,
\* e.g. an anonymous admin): process_message returns Ok without an answer
IgnoreFromBot(m) ==
    /\ app[m].pc = "auth_want"
    /\ app' = [app EXCEPT ![m] = [@ EXCEPT !.pc = "done",
                                           !.result = "ignored"]]
    /\ UNCHANGED <<taskVars, convVars, sendVars, dbVars, tokVars, streamVars, contacts,
                   lock, cache, rows, dbhist, outbox, reacted>>

\* is_command(message_text): the message of a chat that passed
\* ensure_authorized is a command, and process_message ends with it
ProcessCommand(m) ==
    /\ app[m].pc = "prepare_want"
    /\ app' = [app EXCEPT ![m] = [@ EXCEPT !.pc = "done",
                                           !.result = "command"]]
    /\ UNCHANGED <<taskVars, convVars, sendVars, dbVars, tokVars, streamVars, contacts,
                   lock, cache, rows, dbhist, outbox, reacted>>

\* ensure_authorized: read is_authorized through the guard
EnsureAuthorized(m) ==
    /\ app[m].pc = "auth_held"
    /\ app' = [app EXCEPT ![m].pc =
                   IF ensure_authorized(cache[app[m].chat][1].is_authorized)
                   THEN "prepare_want" ELSE "refused"]
    /\ lock' = 0
    /\ UNCHANGED <<taskVars, convVars, sendVars, dbVars, tokVars, streamVars, contacts,
                   cache, rows, dbhist, outbox, reacted>>

\* prepare_llm_request with the guard: prune, copy the history into the
\* payload, take the key, drop the guard
PrepareLlmRequest(m) ==
    /\ app[m].pc = "prepare_held"
    /\ LET chat == app[m].chat
           conv_ == cache[chat][1]
           reserved_tokens ==
               \* system_prompt0, the system prompt and the user text
               estimate_tokens(<<8, 8, user_message(m).bytes>>)
           budget == saturating_sub(model_token_budget, reserved_tokens)
       IN  /\ cache' = [cache EXCEPT ![chat] =
                   Some([conv_ EXCEPT !.history =
                             prune_history(conv_.history, budget)])]
           /\ IF conv_.has_key
              THEN /\ app' = [app EXCEPT ![m].pc = "provider"]
                   /\ lock' = drop_conversation(lock)
              ELSE /\ app' = [app EXCEPT ![m].pc = "refused"]
                   /\ lock' = 0
    /\ UNCHANGED <<taskVars, convVars, sendVars, dbVars, tokVars, streamVars, contacts,
                   rows, dbhist, outbox, reacted>>

\* the plain message sent to an unauthorized chat or a chat without a key,
\* after which process_message returns Err
SendRefusal(m) ==
    /\ app[m].pc = "refused"
    /\ outbox' = outbox \cup {<<m, 0>>}
    /\ app' = [app EXCEPT ![m] = [@ EXCEPT !.pc = "done",
                                           !.result = "refused"]]
    /\ UNCHANGED <<taskVars, convVars, sendVars, dbVars, tokVars, streamVars, contacts,
                   lock, cache, rows, dbhist, reacted>>

\* self.bot.send_message(chat_id, &message).await? fails: no message, and
\* process_message returns the error
SendRefusalFails(m) ==
    /\ app[m].pc = "refused"
    /\ app' = [app EXCEPT ![m] = [@ EXCEPT !.pc = "done",
                                           !.result = "refusal_error"]]
    /\ UNCHANGED <<taskVars, convVars, sendVars, dbVars, tokVars, streamVars, contacts,
                   lock, cache, rows, dbhist, outbox, reacted>>

\* openrouter_api::send returns Ok with a non-empty completion_text;
\* handle_llm_response starts bot_split_send on it
ProviderOk(m) ==
    /\ app[m].pc = "provider"
    /\ \E completion_text \in Answers :
           app' = [app EXCEPT ![m] =
               [@ EXCEPT !.pc = "sending",
                         !.plan = bot_split_send(completion_text, MaxLimit)]]
    /\ UNCHANGED <<taskVars, convVars, sendVars, dbVars, tokVars, streamVars, contacts,
                   lock, cache, rows, dbhist, outbox,
                   reacted>>

\* openrouter_api::send returns Err
ProviderErr(m) ==
    /\ app[m].pc = "provider"
    /\ app' = [app EXCEPT ![m].pc = "failed"]
    /\ UNCHANGED <<taskVars, convVars, sendVars, dbVars, tokVars, streamVars, contacts,
                   lock, cache, rows, dbhist, outbox,
                   reacted>>

\* the provider never answers: the request has no timeout, the await of
\* openrouter_api::send stays pending
ProviderHangs(m) ==
    /\ app[m].pc = "provider"
    /\ app' = [app EXCEPT ![m].pc = "hung"]
    /\ UNCHANGED <<taskVars, convVars, sendVars, dbVars, tokVars, streamVars, contacts,
                   lock, cache, rows, dbhist, outbox,
                   reacted>>

\* bot_split_send delivers its next message; after the last one
\* handle_llm_response goes on to persist_messages
SendChunk(m) ==
    /\ app[m].pc = "sending"
    /\ outbox' = outbox \cup {<<m, app[m].sent + 1>>}
    /\ app' = [app EXCEPT ![m] =
           [@ EXCEPT !.sent = @ + 1,
                     !.pc = IF app[m].sent + 1 = Len(app[m].plan)
                            THEN "persist_want" ELSE "sending"]]
    /\ UNCHANGED <<taskVars, convVars, sendVars, dbVars, tokVars, streamVars, contacts,
                   lock, cache, rows, dbhist, reacted>>

\* the transport refuses the next message of bot_split_send
SendChunkFails(m) ==
    /\ app[m].pc = "sending"
    /\ app' = [app EXCEPT ![m] =
           [@ EXCEPT !.pc = bot_split_send_err, !.result = "send_error"]]
    /\ UNCHANGED <<taskVars, convVars, sendVars, dbVars, tokVars, streamVars, contacts,
                   lock, cache, rows, dbhist, outbox,
                   reacted>>

\* persist_messages with the guard: conversation.add_messages
AddMessages(m) ==
    /\ app[m].pc = "persist_held"
    /\ LET chat == app[m].chat
           conv_ == cache[chat][1]
       IN  cache' = [cache EXCEPT ![chat] =
               Some([conv_ EXCEPT !.history =
                   add_messages(@, <<user_message(m), assistant_message(m)>>)])]
    /\ app' = [app EXCEPT ![m].pc = "persist_db"]
    /\ lock' = 0
    /\ UNCHANGED <<taskVars, convVars, sendVars, dbVars, tokVars, streamVars, contacts,
                   rows, dbhist, outbox, reacted>>

\* persist_messages after the guard: db::add_messages, one transaction
DbAddMessages(m) ==
    /\ app[m].pc = "persist_db"
    /\ dbhist' = [dbhist EXCEPT ![app[m].chat] =
           @ \o <<user_message(m), assistant_message(m)>>]
    /\ app' = [app EXCEPT ![m] =
           [@ EXCEPT !.pc = "done",
                     !.result = IF @ = "none" THEN "ok" ELSE @]]
    /\ UNCHANGED <<taskVars, convVars, sendVars, dbVars, tokVars, streamVars, contacts,
                   lock, cache, rows, outbox,
                   reacted>>

\* the Err branch of handle_llm_response: log, set_message_reaction, which
\* may itself fail
SetMessageReaction(m) ==
    \E delivered \in BOOLEAN :
        /\ app[m].pc = "failed"
        /\ reacted' = IF delivered THEN reacted \cup {m} ELSE reacted
        /\ LET kept == persisted_on_llm_error(user_message(m))
               chat == app[m].chat
           IN  /\ cache' = [cache EXCEPT ![chat] =
                       IF kept = <<>> THEN @
                       ELSE Some([@[1] EXCEPT
                                !.history = add_messages(@, kept)])]
               /\ dbhist' = [dbhist EXCEPT ![chat] = @ \o kept]
        /\ app' = [app EXCEPT ![m] =
               [@ EXCEPT !.pc = "done",
                         !.result = IF delivered THEN "failed"
                                    ELSE "react_error"]]
        /\ UNCHANGED <<taskVars, convVars, sendVars, dbVars, tokVars, streamVars, contacts,
                   lock, rows, outbox>>

NextApp ==
    \/ Deploy
    \/ \E m \in Msgs : Receive(m)
    \/ \E m \in Msgs : GetConversation(m)
    \/ \E m \in Msgs : LoadConversation(m)
    \/ \E m \in Msgs : UpdateUserName(m)
    \/ \E m \in Msgs : SetUserName(m)
    \/ \E m \in Msgs : IgnoreFromBot(m)
    \/ \E m \in Msgs : EnsureAuthorized(m)
    \/ \E m \in Msgs : ProcessCommand(m)
    \/ \E m \in Msgs : PrepareLlmRequest(m)
    \/ \E m \in Msgs : SendRefusal(m)
    \/ \E m \in Msgs : SendRefusalFails(m)
    \/ \E m \in Msgs : ProviderOk(m)
    \/ \E m \in Msgs : ProviderErr(m)
    \/ \E m \in Msgs : ProviderHangs(m)
    \/ \E m \in Msgs : SendChunk(m)
    \/ \E m \in Msgs : SendChunkFails(m)
    \/ \E m \in Msgs : AddMessages(m)
    \/ \E m \in Msgs : DbAddMessages(m)
    \/ \E m \in Msgs : SetMessageReaction(m)

SpecApp == Init /\ [][NextApp]_vars

\* the runtime keeps running every task that can take a step
AppFair == SpecApp /\ WF_vars(NextApp)

\* ------------------- SpecDb: the calls of db.rs on the database of a chat
TextBytes == {0, 8}

DbMessage(role, bytes) == [role |-> role, msg |-> 0, bytes |-> bytes]

\* what persist_messages is called with: the user message of an ignored
\* group message, or the user message and the answer of an exchange
Batches ==
    {<<DbMessage("user", b)>> : b \in TextBytes}
    \cup {<<DbMessage("user", b), DbMessage("assistant", c)>> :
            b \in TextBytes, c \in TextBytes}

TokenBudgets ==
    {estimate_tokens([i \in 1..n |-> b]) : n \in 0..MaxStored, b \in TextBytes}

SetterFields == {"has_key", "model_id", "system_prompt", "user_name"}

\* the value a setter is called with
SetterValue(field) == IF field = "has_key" THEN TRUE ELSE Some("set")

\* db::load_conversation: the row is read, and inserted when there is none
DbLoadConversation ==
    /\ db.pc = "idle"
    /\ db' = [db EXCEPT !.pc = "done", !.op = "load_conversation",
                        !.row = insert_if_missing(db.row),
                        !.outcome = "ok"]
    /\ UNCHANGED <<taskVars, convVars, sendVars, appVars, tokVars, streamVars>>

\* db::load_history
DbLoadHistory ==
    /\ db.pc = "idle"
    /\ \E budget \in TokenBudgets :
        db' = [db EXCEPT !.pc = "done", !.op = "load_history",
                         !.budget = budget,
                         !.loaded = load_history(db.history, <<>>, budget),
                         !.outcome = "ok"]
    /\ UNCHANGED <<taskVars, convVars, sendVars, appVars, tokVars, streamVars>>

\* db::add_messages: conn.transaction()
DbBegin ==
    /\ db.pc = "idle"
    /\ \E batch \in Batches :
        /\ Len(db.history) + Len(batch) <= MaxStored
        /\ db' = [db EXCEPT !.pc = "tx", !.op = "add_messages",
                            !.arg = batch, !.before = db.history]
    /\ UNCHANGED <<taskVars, convVars, sendVars, appVars, tokVars, streamVars>>

\* db::add_messages: one tx.execute(INSERT ..) of the loop
DbInsert ==
    /\ db.pc = "tx"
    /\ Len(db.pending) < Len(db.arg)
    /\ db' = [db EXCEPT !.pending = Append(@, db.arg[Len(db.pending) + 1])]
    /\ UNCHANGED <<taskVars, convVars, sendVars, appVars, tokVars, streamVars>>

\* db::add_messages: tx.commit()
DbCommit ==
    /\ db.pc = "tx"
    /\ db.pending = db.arg
    /\ db' = [db EXCEPT !.pc = "done", !.outcome = "ok", !.pending = <<>>,
                        !.history = commit(db.history, db.pending)]
    /\ UNCHANGED <<taskVars, convVars, sendVars, appVars, tokVars, streamVars>>

\* db::add_messages: an insert or the commit fails, expect panics, the
\* panic hook ends the process
DbFails ==
    /\ db.pc = "tx"
    /\ db' = [db EXCEPT !.pc = "exited", !.outcome = "exit",
                        !.history = rollback(db.history, db.pending)]
    /\ UNCHANGED <<taskVars, convVars, sendVars, appVars, tokVars, streamVars>>

\* one of the four setters that end the process on a mismatch
DbSetField ==
    /\ db.pc = "idle"
    /\ \E field \in SetterFields :
        LET updated == rows_updated(db.row)
            outcome == set_field(updated)
        IN  db' = [db EXCEPT
                     !.pc = IF outcome = "exit" THEN "exited" ELSE "done",
                     !.op = field, !.updated = updated, !.outcome = outcome,
                     !.row = IF db.row = None THEN None
                             ELSE Some([db.row[1] EXCEPT
                                          ![field] = SetterValue(field)])]
    /\ UNCHANGED <<taskVars, convVars, sendVars, appVars, tokVars, streamVars>>

\* the /approve command: db::set_is_authorized and the answer to the admin
DbSetIsAuthorized ==
    /\ db.pc = "idle"
    /\ \E is_authorized \in BOOLEAN :
        LET updated == rows_updated(db.row)
            outcome == set_is_authorized(updated)
        IN  db' = [db EXCEPT
                     !.pc = "done", !.op = "is_authorized",
                     !.updated = updated, !.outcome = outcome,
                     !.reply = approve_reply(outcome),
                     !.row = IF db.row = None THEN None
                             ELSE Some([db.row[1] EXCEPT
                                          !.is_authorized = is_authorized])]
    /\ UNCHANGED <<taskVars, convVars, sendVars, appVars, tokVars, streamVars>>

\* the call is over, or the bot is started again on the same database
DbReturn ==
    /\ db.pc \in {"done", "exited"}
    /\ db' = DbCall(db.history, db.row)
    /\ UNCHANGED <<taskVars, convVars, sendVars, appVars, tokVars, streamVars>>

NextDb ==
    \/ DbLoadConversation
    \/ DbLoadHistory
    \/ DbBegin
    \/ DbInsert
    \/ DbCommit
    \/ DbFails
    \/ DbSetField
    \/ DbSetIsAuthorized
    \/ DbReturn

SpecDb == Init /\ [][NextDb]_vars

\* ------------------ SpecTokens: the estimator and the counter on inputs
\* the texts of a request, as byte lengths
LenSeqs == UNION {[1..n -> 0..MaxBytes] : n \in 0..MaxMessages}

ModelNames == {"gpt-4o", "gpt-4", "openai/gpt-5", ""}

\* estimate_tokens of some messages
EstimateTokens ==
    /\ tok.pc = "idle"
    /\ \E lens \in LenSeqs :
        tok' = [tok EXCEPT !.pc = "estimated", !.lens = lens,
                           !.est = estimate_tokens(lens)]
    /\ UNCHANGED <<taskVars, convVars, sendVars, appVars, dbVars, streamVars>>

\* estimate_tokens of the same messages after bytes were added to one
EstimateLongerText ==
    /\ tok.pc = "estimated"
    /\ \E i \in 1..Len(tok.lens), more \in 1..MaxBytes :
        LET grown == [tok.lens EXCEPT ![i] = @ + more]
        IN  tok' = [tok EXCEPT !.pc = "grown", !.grown = grown,
                               !.est_grown = estimate_tokens(grown)]
    /\ UNCHANGED <<taskVars, convVars, sendVars, appVars, dbVars, streamVars>>

\* estimate_tokens of the same messages and one more
EstimateMoreMessages ==
    /\ tok.pc = "estimated"
    /\ \E bytes \in 0..MaxBytes :
        LET grown == Append(tok.lens, bytes)
        IN  tok' = [tok EXCEPT !.pc = "grown", !.grown = grown,
                               !.est_grown = estimate_tokens(grown)]
    /\ UNCHANGED <<taskVars, convVars, sendVars, appVars, dbVars, streamVars>>

\* TokenCounter::new(model_name)
TokenCounterNew ==
    /\ tok.pc = "idle"
    /\ \E model_name \in ModelNames :
        tok' = [tok EXCEPT !.pc = "counter", !.model_name = model_name,
                           !.bpe = TokenCounter_new(model_name)]
    /\ UNCHANGED <<taskVars, convVars, sendVars, appVars, dbVars, streamVars>>

TokReturn ==
    /\ tok.pc \in {"grown", "counter"}
    /\ tok' = TokIdle
    /\ UNCHANGED <<taskVars, convVars, sendVars, appVars, dbVars, streamVars>>

NextTokens ==
    \/ EstimateTokens
    \/ EstimateLongerText
    \/ EstimateMoreMessages
    \/ TokenCounterNew
    \/ TokReturn

SpecTokens == Init /\ [][NextTokens]_vars

\* ----------- SpecStream: send_streaming on a response body, chunk by chunk
\* the events of a body
Events ==
    {<<"d", "x">>, <<"d", "y">>, <<"d">>, <<"o">>, <<"D">>, <<"e">>, <<"p">>,
     <<"j">>, <<"i", "\n", "d", "x">>}

Separators_ == {<<"\n", "\n">>, <<"\r", "\n", "\r", "\n">>}

Framed == {event \o sep : event \in Events, sep \in Separators_}

\* the bodies of at most n whole events
RECURSIVE Bodies(_)
Bodies(n) ==
    IF n = 0 THEN {<<>>}
    ELSE Bodies(n - 1) \cup {body \o f : body \in Bodies(n - 1), f \in Framed}

\* whole events, or events and one that is cut off before its separator
Wires ==
    Bodies(MaxEvents)
    \cup {body \o event : body \in Bodies(MaxEvents - 1), event \in Events}

\* the call of on_delta that fails, 0 for none
FailAt == 0..2

\* the response has a success status: the body is read as a stream
StreamOpen ==
    /\ st.pc = "idle"
    /\ \E wire \in Wires, fail_at \in FailAt :
        st' = [StIdle EXCEPT !.pc = "running", !.wire = wire, !.body = "read",
                             !.fail_at = fail_at, !.result = "running"]
    /\ UNCHANGED <<taskVars, convVars, sendVars, appVars, dbVars, tokVars>>

\* the response has no success status: Err, before any byte of a stream
StreamRefused ==
    /\ st.pc = "idle"
    /\ st' = [StIdle EXCEPT !.pc = "returned", !.result = "err"]
    /\ UNCHANGED <<taskVars, convVars, sendVars, appVars, dbVars, tokVars>>

\* the next chunk of the body arrives and its whole events are handled;
\* split: some chunk ended inside an event
StreamChunk ==
    /\ st.pc = "running"
    /\ st.pos < Len(st.wire)
    /\ \E n \in 1..MaxChunk :
        /\ st.pos + n <= Len(st.wire)
        /\ LET chunk == SubSeq(st.wire, st.pos + 1, st.pos + n)
               after == stream_chunk(st, chunk)
           IN  st' = [after EXCEPT
                        !.pos = st.pos + n,
                        !.split = @ \/ (after.result = "running"
                                         /\ after.buffer # <<>>),
                        !.pc = IF after.result = "running" THEN "running"
                               ELSE "returned"]
    /\ UNCHANGED <<taskVars, convVars, sendVars, appVars, dbVars, tokVars>>

\* the connection breaks
StreamBreaks ==
    /\ st.pc = "running"
    /\ st' = [stream_error(st) EXCEPT !.pc = "returned", !.body = "broken"]
    /\ UNCHANGED <<taskVars, convVars, sendVars, appVars, dbVars, tokVars>>

\* the body ends
StreamEnds ==
    /\ st.pc = "running"
    /\ st.pos = Len(st.wire)
    /\ st' = [stream_end(st) EXCEPT !.pc = "returned"]
    /\ UNCHANGED <<taskVars, convVars, sendVars, appVars, dbVars, tokVars>>

\* the caller has the result
StreamReturn ==
    /\ st.pc = "returned"
    /\ st' = StIdle
    /\ UNCHANGED <<taskVars, convVars, sendVars, appVars, dbVars, tokVars>>

NextStream ==
    \/ StreamOpen
    \/ StreamRefused
    \/ StreamChunk
    \/ StreamBreaks
    \/ StreamEnds
    \/ StreamReturn

SpecStream == Init /\ [][NextStream]_vars

\* ---- SpecModels: handlers and the model refresh on the models lock and
\* ---- the conversations mutex
\* /model <id>: available_models = self.models.read().await, held to the
\* end of the handler
ModelText(h) ==
    /\ sync.pc[h] = "idle"
    /\ sync' = acquire([sync EXCEPT !.kind[h] = "model_text"], h, "read",
                       "lock")
    /\ UNCHANGED <<restVars, gate, cmd>>

\* any other message that reaches get_conversation and resolve_model
Message(h) ==
    /\ sync.pc[h] = "idle"
    /\ sync' = [sync EXCEPT !.kind[h] = "message", !.pc[h] = "lock"]
    /\ UNCHANGED <<restVars, gate, cmd>>

\* get_conversation: self.conversations.lock().await
ConversationsLock(h) ==
    /\ sync.pc[h] = "lock"
    /\ sync.mutex = 0
    /\ sync' = [sync EXCEPT !.mutex = h,
                            !.pc[h] = IF sync.cached THEN "conv"
                                      ELSE "vacant"]
    /\ UNCHANGED <<restVars, gate, cmd>>

\* get_conversation, vacant entry: resolve_model takes the read lock
LoadResolveModel(h) ==
    /\ sync.pc[h] = "vacant"
    /\ sync' = acquire(sync, h, "read", "loading")
    /\ UNCHANGED <<restVars, gate, cmd>>

\* resolve_model returns (its guard is dropped), the entry is inserted
InsertConversation(h) ==
    /\ sync.pc[h] = "loading"
    /\ sync' = [release(sync, "read") EXCEPT !.cached = TRUE,
                                             !.pc[h] = "conv"]
    /\ UNCHANGED <<restVars, gate, cmd>>

\* resolve_model under the conversation guard: self.models.read().await
ResolveModel(h) ==
    /\ sync.pc[h] = "conv"
    /\ sync' = acquire(sync, h, "read", "resolving")
    /\ UNCHANGED <<restVars, gate, cmd>>

\* resolve_model returns: its guard is dropped
ResolveModelReturn(h) ==
    /\ sync.pc[h] = "resolving"
    /\ sync' = [release(sync, "read") EXCEPT !.pc[h] = "resolved"]
    /\ UNCHANGED <<restVars, gate, cmd>>

\* the conversation guard is dropped at the end of its block
ConversationsUnlock(h) ==
    /\ sync.pc[h] = "resolved"
    /\ sync' = [sync EXCEPT !.mutex = 0, !.pc[h] = "reply"]
    /\ UNCHANGED <<restVars, gate, cmd>>

\* the handler ends; available_models is dropped with it
HandlerEnds(h) ==
    /\ sync.pc[h] = "reply"
    /\ sync' = [(IF sync.kind[h] = "model_text" THEN release(sync, "read")
                 ELSE sync) EXCEPT !.pc[h] = "idle", !.kind[h] = "none"]
    /\ UNCHANGED <<restVars, gate, cmd>>

\* interval.tick().await returns: refresh_models calls list_models
RefreshTick ==
    /\ sync.pc[0] = "idle"
    /\ sync' = [sync EXCEPT !.pc[0] = "fetch"]
    /\ UNCHANGED <<restVars, gate, cmd>>

\* list_models(..).await? fails: refresh_models returns the error
ListModelsFails ==
    /\ sync.pc[0] = "fetch"
    /\ sync' = [sync EXCEPT !.pc[0] = "idle"]
    /\ UNCHANGED <<restVars, gate, cmd>>

\* refresh_models: models.write().await
ModelsWrite ==
    /\ sync.pc[0] = "fetch"
    /\ sync' = acquire(sync, 0, "write", "writing")
    /\ UNCHANGED <<restVars, gate, cmd>>

\* *guard = latest; the write guard is dropped
ModelsWritten ==
    /\ sync.pc[0] = "writing"
    /\ sync' = [release(sync, "write") EXCEPT !.pc[0] = "idle"]
    /\ UNCHANGED <<restVars, gate, cmd>>

NextModels ==
    \/ \E h \in Handlers : ModelText(h)
    \/ \E h \in Handlers : Message(h)
    \/ \E h \in Handlers : ConversationsLock(h)
    \/ \E h \in Handlers : LoadResolveModel(h)
    \/ \E h \in Handlers : InsertConversation(h)
    \/ \E h \in Handlers : ResolveModel(h)
    \/ \E h \in Handlers : ResolveModelReturn(h)
    \/ \E h \in Handlers : ConversationsUnlock(h)
    \/ \E h \in Handlers : HandlerEnds(h)
    \/ RefreshTick
    \/ ListModelsFails
    \/ ModelsWrite
    \/ ModelsWritten

SpecModels == Init /\ [][NextModels]_vars

\* ---- SpecGate: process_message with groups and /approve, two handlers at
\* ---- a time
\* teloxide hands a message to process_message
GateReceive(t) ==
    /\ gate.h[t].pc = "idle"
    /\ \E msg \in GateMessages :
           gate' = [gate EXCEPT !.h[t] = [pc |-> "name", msg |-> msg,
                                          result |-> "none"]]
    /\ UNCHANGED <<restVars, sync, cmd>>

\* maybe_update_user_name: the conversation of the chat is taken
GateUpdateUserName(t) ==
    /\ gate.h[t].pc = "name"
    /\ gate' = gate_goto(gate_get_conversation(gate, gate.h[t].msg.chat), t,
                         "route")
    /\ UNCHANGED <<restVars, sync, cmd>>

\* a group message that neither mentions nor replies to the bot:
\* persist_messages, the in-memory part under the guard
GatePersistIgnored(t) ==
    /\ gate.h[t].pc = "route"
    /\ is_public(gate.h[t].msg.chat) /\ ~gate.h[t].msg.addressed
    /\ LET chat == gate.h[t].msg.chat
           g == gate_get_conversation(gate, chat)
       IN  /\ g.mem[chat] < MaxAdds
           /\ gate' = gate_goto([g EXCEPT !.mem[chat] = @ + 1], t, "db_add")
    /\ UNCHANGED <<restVars, sync, cmd>>

\* if is_from_bot(&msg) { return Ok(()) }
GateIgnoreFromBot(t) ==
    /\ gate.h[t].pc = "route"
    /\ ~(is_public(gate.h[t].msg.chat) /\ ~gate.h[t].msg.addressed)
    /\ gate.h[t].msg.from_bot
    /\ gate' = gate_done(gate, t, "ignored")
    /\ UNCHANGED <<restVars, sync, cmd>>

\* ensure_authorized(chat_id).await?: Ok, or the denial and Err
GateEnsureAuthorized(t) ==
    /\ gate.h[t].pc = "route"
    /\ ~(is_public(gate.h[t].msg.chat) /\ ~gate.h[t].msg.addressed)
    /\ ~gate.h[t].msg.from_bot
    /\ LET chat == gate.h[t].msg.chat
           g == gate_get_conversation(gate, chat)
       IN  gate' = IF ensure_authorized(g.cache[chat][1].is_authorized)
                   THEN gate_goto(g, t, "passed")
                   ELSE gate_done(g, t, "refused")
    /\ UNCHANGED <<restVars, sync, cmd>>

\* if is_command(text) { if !is_public { .. } return Ok(()) } in a group
GateIgnoreGroupCommand(t) ==
    /\ gate.h[t].pc = "passed"
    /\ gate.h[t].msg.kind \in {"approve", "command"}
    /\ is_public(gate.h[t].msg.chat)
    /\ gate' = gate_done(gate, t, "group_command")
    /\ UNCHANGED <<restVars, sync, cmd>>

\* process_command for a command other than /approve: no authorization is
\* read or written
GateProcessCommand(t) ==
    /\ gate.h[t].pc = "passed"
    /\ gate.h[t].msg.kind = "command"
    /\ ~is_public(gate.h[t].msg.chat)
    /\ gate' = gate_done(gate, t, "command")
    /\ UNCHANGED <<restVars, sync, cmd>>

\* Command::Approve: is_admin of the sender's conversation decides
GateApprove(t) ==
    /\ gate.h[t].pc = "passed"
    /\ gate.h[t].msg.kind = "approve"
    /\ ~is_public(gate.h[t].msg.chat)
    /\ LET chat == gate.h[t].msg.chat
           g == gate_get_conversation(gate, chat)
       IN  gate' = IF approve_allowed(g.cache[chat][1].is_admin)
                   THEN gate_goto(g, t, "approve_db")
                   ELSE gate_done(g, t, "not_admin")
    /\ UNCHANGED <<restVars, sync, cmd>>

\* db::set_is_authorized(target_id, is_authorized): the UPDATE of the row,
\* Err if the chat has none
GateSetIsAuthorized(t) ==
    /\ gate.h[t].pc = "approve_db"
    /\ LET target == gate.h[t].msg.target
       IN  gate' =
             IF set_is_authorized(rows_updated(gate.rows[target])) = "ok"
             THEN gate_goto([gate EXCEPT !.rows[target][1].is_authorized =
                                 gate.h[t].msg.value], t, "approve_cache")
             ELSE gate_done(gate, t, "approve_failed")
    /\ UNCHANGED <<restVars, sync, cmd>>

\* the conversations map is locked and the flag of a loaded target is set
GateSetCached(t) ==
    /\ gate.h[t].pc = "approve_cache"
    /\ LET target == gate.h[t].msg.target
       IN  gate' = gate_done(
             IF gate.cache[target] = None THEN gate
             ELSE [gate EXCEPT !.cache[target][1].is_authorized =
                       gate.h[t].msg.value], t, "approved")
    /\ UNCHANGED <<restVars, sync, cmd>>

\* prepare_llm_request and openrouter_api::send: an answer or an error
GateProvider(t) ==
    /\ gate.h[t].pc = "passed"
    /\ gate.h[t].msg.kind = "text"
    /\ \E answered \in BOOLEAN :
           gate' = IF answered THEN gate_goto(gate, t, "persist")
                   ELSE gate_done(gate, t, "failed")
    /\ UNCHANGED <<restVars, sync, cmd>>

\* handle_llm_response: persist_messages, the in-memory part under the
\* guard
GatePersistExchange(t) ==
    /\ gate.h[t].pc = "persist"
    /\ LET chat == gate.h[t].msg.chat
           g == gate_get_conversation(gate, chat)
       IN  /\ g.mem[chat] < MaxAdds
           /\ gate' = gate_goto([g EXCEPT !.mem[chat] = @ + 1], t, "db_add")
    /\ UNCHANGED <<restVars, sync, cmd>>

\* persist_messages after the guard: db::add_messages
GateDbAddMessages(t) ==
    /\ gate.h[t].pc = "db_add"
    /\ gate.dur[gate.h[t].msg.chat] < MaxAdds
    /\ gate' = gate_done([gate EXCEPT !.dur[gate.h[t].msg.chat] = @ + 1], t,
                         "persisted")
    /\ UNCHANGED <<restVars, sync, cmd>>

\* the handler is free for the next message
GateReturn(t) ==
    /\ gate.h[t].pc = "done"
    /\ gate' = [gate EXCEPT !.h[t] = GateIdle.h[t]]
    /\ UNCHANGED <<restVars, sync, cmd>>

NextGate ==
    \/ \E t \in GateTasks : GateReceive(t)
    \/ \E t \in GateTasks : GateUpdateUserName(t)
    \/ \E t \in GateTasks : GatePersistIgnored(t)
    \/ \E t \in GateTasks : GateIgnoreFromBot(t)
    \/ \E t \in GateTasks : GateEnsureAuthorized(t)
    \/ \E t \in GateTasks : GateIgnoreGroupCommand(t)
    \/ \E t \in GateTasks : GateProcessCommand(t)
    \/ \E t \in GateTasks : GateApprove(t)
    \/ \E t \in GateTasks : GateSetIsAuthorized(t)
    \/ \E t \in GateTasks : GateSetCached(t)
    \/ \E t \in GateTasks : GateProvider(t)
    \/ \E t \in GateTasks : GatePersistExchange(t)
    \/ \E t \in GateTasks : GateDbAddMessages(t)
    \/ \E t \in GateTasks : GateReturn(t)

SpecGate == Init /\ [][NextGate]_vars

\* ---- SpecCommands: process_command parses a text, /key shows a masked key
\* process_command: commands::parse_command(message_text, &self.bot_username)
ParseCommand ==
    /\ cmd.pc = "idle"
    /\ \E text \in CommandTexts :
           cmd' = [CmdIdle EXCEPT !.pc = "parsed", !.text = text,
                                  !.command = parse_command(text,
                                                            bot_username_)]
    /\ UNCHANGED <<restVars, sync, gate>>

\* Command::Key(CommandArg::Empty) with a key set: mask_api_key(&key)
MaskApiKey ==
    /\ cmd.pc = "idle"
    /\ \E key \in Keys :
           cmd' = [CmdIdle EXCEPT !.pc = "masked", !.key = key,
                                  !.masked = mask_api_key(key)]
    /\ UNCHANGED <<restVars, sync, gate>>

\* the reply is sent, process_command returns
CommandReturn ==
    /\ cmd.pc \in {"parsed", "masked"}
    /\ cmd' = CmdIdle
    /\ UNCHANGED <<restVars, sync, gate>>

NextCommands ==
    \/ ParseCommand
    \/ MaskApiKey
    \/ CommandReturn

SpecCommands == Init /\ [][NextCommands]_vars

\* ------------------------------------------------- vocabulary of the claims
Ids(turns) == {turns[i].id : i \in 1..Len(turns)}

Pending(turn) == turn.assistant = <<>>

\* cost of a turn: user tokens plus assistant tokens, 0 when it has none
Cost(turn) ==
    turn.user.tokens + (IF Pending(turn) THEN 0 ELSE turn.assistant[1].tokens)

RECURSIVE SumCost(_)
SumCost(turns) ==
    IF turns = <<>> THEN 0 ELSE Cost(Head(turns)) + SumCost(Tail(turns))

\* the sequence without its i-th element
RemoveAt(s, i) == [j \in 1..(Len(s) - 1) |-> IF j < i THEN s[j] ELSE s[j + 1]]

\* the last k elements dropped from the front
DropFront(s, k) == [j \in 1..(Len(s) - k) |-> s[j + k]]

Pruned == last.op = "prune_to_token_budget"
Committed == last.op = "record_assistant_response"
Discarded == last.op = "discard_turn"
Opened == last.op = "record_user_message"

\* the characters spec and claims call whitespace, and those among them
\* at which a text can be cut
Whitespace == {" ", "\n", "\t"}

Separators == {" ", "\n"}

RECURSIVE Concat(_)
Concat(chunks) ==
    IF chunks = <<>> THEN <<>> ELSE Head(chunks) \o Concat(Tail(chunks))

\* the boundary after chunk i has a character of W on one of its sides
OnBoundary(chunks, i, W) ==
    \/ chunks[i] # <<>> /\ chunks[i][Len(chunks[i])] \in W
    \/ chunks[i + 1] # <<>> /\ chunks[i + 1][1] \in W

\* the length of the longest run without a character of W that contains
\* the positions p and p + 1 of text
RunAcross(text, p, W) ==
    LET lo == CHOOSE i \in 1..p :
                  /\ \A k \in i..p : text[k] \notin W
                  /\ i = 1 \/ text[i - 1] \in W
        hi == CHOOSE j \in (p + 1)..Len(text) :
                  /\ \A k \in (p + 1)..j : text[k] \notin W
                  /\ j = Len(text) \/ text[j + 1] \in W
    IN  hi - lo + 1

\* every boundary of the chunks of text is on a character of W when the
\* chunk it closes has one, and is inside a run only if the run is longer
\* than the limit
BoundariesOn(chunks, text, limit, W) ==
    \A i \in 1..(Len(chunks) - 1) :
        /\ (\E k \in 1..Len(chunks[i]) : chunks[i][k] \in W)
               => OnBoundary(chunks, i, W)
        /\ ~OnBoundary(chunks, i, W)
               => RunAcross(text, Len(Concat(SubSeq(chunks, 1, i))), W)
                      > limit

IsPrefix(s, t) == Len(s) <= Len(t) /\ s = SubSeq(t, 1, Len(s))

\* the positions at which a handler is inside get_conversation or holds
\* the guard it returned
Guarded == Loading \cup Holding

\* message m has an entry in the in-memory history of some chat
InMemory(m) ==
    \E c \in Chats :
        /\ cache[c] # None
        /\ \E i \in 1..Len(cache[c][1].history) :
               cache[c][1].history[i].msg = m

\* message m has an entry in the durable history of some chat
Durable(m) ==
    \E c \in Chats : \E i \in 1..Len(dbhist[c]) : dbhist[c][i].msg = m

\* the messages of the answer to m that reached the chat
Delivered(m) == {i \in 1..MaxLen : <<m, i>> \in outbox}

\* is_authorized of the chat: of its Conversation, or of its row while the
\* chat is not in the map; a chat without a row is not authorized
ChatAuthorized(c) ==
    IF cache[c] # None THEN cache[c][1].is_authorized
    ELSE rows[c] # None /\ rows[c][1].is_authorized

\* the positions of process_message up to ensure_authorized and its denial
UpToGate ==
    {"new", "name_want", "name_load", "name_held", "name_db", "auth_want",
     "auth_load", "auth_held", "refused", "done"}

\* message m, received from a chat that is not authorized
Unauthorized(m) ==
    /\ DOMAIN rows # {}
    /\ app[m].pc # "new"
    /\ ~ChatAuthorized(app[m].chat)

\* nothing was done for message m: no command, no provider request, no
\* answer, no entry in a history
NothingDone(m) ==
    /\ app[m].pc \in UpToGate
    /\ app[m].result \in {"none", "refused", "ignored", "refusal_error"}
    /\ Delivered(m) = {}
    /\ ~InMemory(m)
    /\ ~Durable(m)

\* the n newest messages of a stored history, oldest first
NewestSuffix(stored, n) == SubSeq(stored, Len(stored) - n + 1, Len(stored))

WithinBudget(history, budget) ==
    estimate_tokens(text_lens(history)) <= budget

\* the longest newest suffix whose estimate does not exceed the budget
LongestWithin(stored, budget) ==
    LET fits == {n \in 0..Len(stored) :
                    WithinBudget(NewestSuffix(stored, n), budget)}
    IN  NewestSuffix(stored, CHOOSE n \in fits : \A k \in fits : k <= n)

\* the history ends with a user message that no assistant message follows
Dangling(history) ==
    history # <<>> /\ history[Len(history)].role = "user"

DbAfter(op) == db.op = op /\ db.pc \in {"done", "exited"}

\* the deltas of the calls before the last one
Deltas(calls) == [i \in 1..(Len(calls) - 1) |-> calls[i].delta]

\* the text bytes of a body, in the order of arrival
Payload(wire) == SelectSeq(wire, LAMBDA c : c \in {"x", "y"})

\* the body has a delta event whose output array holds an empty text
EmptyOutputText(wire) ==
    \E i \in 1..Len(wire) :
        wire[i] = "o" /\ (i = Len(wire) \/ wire[i + 1] \in {"\r", "\n"})

\* exactly one call with finalize, and it is the last one
FinalizedOnceLast(calls) ==
    /\ calls # <<>>
    /\ calls[Len(calls)].finalize
    /\ calls[Len(calls)].delta = <<>>
    /\ \A i \in 1..(Len(calls) - 1) : ~calls[i].finalize

\* a failing call of on_delta is the last call, and the result is Err
CallbackErrorStops ==
    st.fail_at > 0 =>
        /\ Len(st.calls) <= st.fail_at
        /\ (st.pc = "returned" /\ Len(st.calls) = st.fail_at) =>
                st.result = "err"

\* the calls of on_delta that handed over a delta
Received(calls) == SelectSeq(calls, LAMBDA c : ~c.finalize)

\* the call of on_delta that signals the end
Finalize == [delta |-> <<>>, finalize |-> TRUE]

\* the chunks joined with a newline between each two
RECURSIVE JoinNewline(_)
JoinNewline(chunks) ==
    IF chunks = <<>> THEN <<>>
    ELSE IF Len(chunks) = 1 THEN chunks[1]
    ELSE chunks[1] \o <<"\n">> \o JoinNewline(Tail(chunks))

\* the number of messages the first n turns have: two for a complete turn,
\* one for a pending one
RECURSIVE MessagesOf(_, _)
MessagesOf(turns, n) ==
    IF n = 0 THEN 0
    ELSE MessagesOf(turns, n - 1)
             + (IF turns[n].assistant # None THEN 2 ELSE 1)

\* the ids of the turns that were issued and are no longer held: evicted by
\* prune_to_token_budget or discarded
RemovedIds == {issued[i] : i \in 1..Len(issued)}
                  \ {conv.turns[i].id : i \in 1..Len(conv.turns)}

\* task t waits for a guard of the models lock or for the conversations
\* mutex
WaitsForLock(t) ==
    \/ sync.pc[t] = "blocked"
    \/ sync.pc[t] = "lock" /\ sync.mutex # 0

\* the positions of the entries of message m in a history
EntriesOf(history, m) == {i \in 1..Len(history) : history[i].msg = m}

\* an /approve command is being handled
ApproveInFlight ==
    \E t \in GateTasks :
        gate.h[t].msg.kind = "approve" /\ gate.h[t].pc \notin {"idle", "done"}

\* is_authorized of a chat of SpecGate: of its Conversation, or of its row
\* while the chat is not in the map; a chat without a row is not authorized
GateAuthorized(c) ==
    IF gate.cache[c] # None THEN gate.cache[c][1].is_authorized
    ELSE gate.rows[c] # None /\ gate.rows[c][1].is_authorized

\* this step appends to the in-memory history of chat c (a load apart) or
\* to its durable history
HistoryGrows(c) ==
    \/ gate'.mem[c] > (IF gate.cache[c] = None THEN gate.dur[c]
                       ELSE gate.mem[c])
    \/ gate'.dur[c] > gate.dur[c]

\* this step changes is_authorized of the row of chat c or of its loaded
\* Conversation
AuthorizationChanges(c) ==
    \/ /\ gate.rows[c] # None
       /\ gate'.rows[c][1].is_authorized # gate.rows[c][1].is_authorized
    \/ /\ gate.rows[c] = None /\ gate'.rows[c] # None
       /\ gate'.rows[c][1].is_authorized
    \/ /\ gate.cache[c] # None
       /\ gate'.cache[c][1].is_authorized # gate.cache[c][1].is_authorized
    \/ /\ gate.cache[c] = None /\ gate'.cache[c] # None
       /\ gate'.cache[c][1].is_authorized # GateAuthorized(c)

\* this step is taken by a handler of an /approve for chat c that was sent
\* in a private chat whose is_admin flag is true
ApproveByAdmin(c) ==
    \E t \in GateTasks :
        /\ gate'.h[t] # gate.h[t]
        /\ gate.h[t].msg.kind = "approve"
        /\ gate.h[t].msg.target = c
        /\ ~is_public(gate.h[t].msg.chat)
        /\ gate.rows[gate.h[t].msg.chat] # None
        /\ gate.rows[gate.h[t].msg.chat][1].is_admin

\* the Command variant of a command name of the help text
VariantOf(name) ==
    CASE name = <<"h", "e", "l", "p">> -> "Help"
      [] name = <<"s", "t", "a", "r", "t">> -> "Start"
      [] name = <<"m", "o", "d", "e", "l", "s">> -> "Models"
      [] name = <<"m", "o", "d", "e", "l">> -> "Model"
      [] name = <<"k", "e", "y">> -> "Key"
      [] name = <<"a", "p", "p", "r", "o", "v", "e">> -> "Approve"
      [] OTHER -> "SystemPrompt"

\* the command of the name as the help text spells it, in any letter case,
\* with or without the mention of the bot
HelpSpellings(name) ==
    {<<"/">> \o spelled \o mention :
         spelled \in LetterCases(name), mention \in OwnMentions}

\* send_streaming on the body as one chunk
WholeBody(wire, fail_at) ==
    LET s == stream_chunk([StIdle EXCEPT !.fail_at = fail_at,
                                         !.result = "running"], wire)
    IN  IF s.result = "running" THEN stream_end(s) ELSE s

\* ----------------------------------------------------------------- claims
\* C1: after any sequence of record_user_message, record_assistant_response,
\* discard_turn and prune_to_token_budget calls, with arbitrary turn ids
\* (ids already complete included), prompt_tokens equals the sum over the
\* turns in the deque of user.tokens plus assistant.tokens.
\* Stated as claimed; the code violates it: recording a response on a turn
\* that already has one adds the new tokens without removing the old ones.
C1_PromptTokensIsSum == conv.prompt_tokens = SumCost(conv.turns)

\* C2: prune_to_token_budget never removes a pending turn: every turn that
\* is pending before the call is present after it, with the same id and the
\* same user message, for every budget and reserve.
C2_PruneKeepsPending ==
    Pruned =>
        \A i \in 1..Len(pre.turns) :
            Pending(pre.turns[i]) =>
                \E j \in 1..Len(conv.turns) :
                    /\ conv.turns[j].id = pre.turns[i].id
                    /\ conv.turns[j].user = pre.turns[i].user
                    /\ Pending(conv.turns[j])

\* C2 witness: a prune that evicted a turn, stopped at a pending front turn
\* and is still over budget.
C2_Witness ==
    /\ Pruned
    /\ Len(conv.turns) < Len(pre.turns)
    /\ conv.turns # <<>>
    /\ Pending(Head(conv.turns))
    /\ conv.prompt_tokens + last.sys > last.max

\* C3: prune_to_token_budget evicts only from the oldest end and only while
\* over budget: the turns left are a suffix of the turns before, unmodified;
\* every evicted turn was complete and was evicted while prompt_tokens +
\* system_prompt_tokens exceeded max_prompt_tokens; prompt_tokens drops by
\* the cost of the evicted turns; a conversation within budget is unchanged.
C3_PruneEvictsOldestWhileOver ==
    Pruned =>
        LET k == Len(pre.turns) - Len(conv.turns)
        IN  /\ k >= 0
            /\ conv.turns = DropFront(pre.turns, k)
            /\ conv.next_turn_id = pre.next_turn_id
            /\ conv.prompt_tokens =
                   pre.prompt_tokens - SumCost(SubSeq(pre.turns, 1, k))
            /\ \A j \in 1..k :
                   /\ ~Pending(pre.turns[j])
                   /\ pre.prompt_tokens - SumCost(SubSeq(pre.turns, 1, j - 1))
                          + last.sys > last.max
            /\ (pre.prompt_tokens + last.sys <= last.max => conv = pre)

\* C3 witness: complete turns followed by a pending one, over budget; the
\* prune evicts only the oldest turn and ends within budget.
C3_Witness ==
    /\ Pruned
    /\ Len(pre.turns) = 3
    /\ ~Pending(pre.turns[1])
    /\ ~Pending(pre.turns[2])
    /\ Pending(pre.turns[3])
    /\ Len(conv.turns) = 2
    /\ Cost(pre.turns[1]) > 0
    /\ conv.prompt_tokens + last.sys <= last.max

\* C4: prune_to_token_budget always terminates, and when it returns either
\* prompt_tokens + system_prompt_tokens <= max_prompt_tokens, or the
\* conversation is empty, or its front turn is pending; in the over-budget
\* case it returns normally and turns and prompt_tokens stay consistent:
\* prompt_tokens has dropped by exactly the cost of the evicted turns.
PruneReturned == loop.pc = "idle" /\ loop.exit # "none" /\ Pruned

C4_PruneTerminates ==
    /\ (loop.pc = "loop") ~> (loop.pc = "idle")
    /\ [](PruneReturned =>
            /\ \/ conv.prompt_tokens + loop.sys <= loop.max
               \/ conv.turns = <<>>
               \/ Pending(Head(conv.turns))
            /\ (loop.exit = "break") =
                   (conv.prompt_tokens + loop.sys > loop.max)
            /\ conv.prompt_tokens - SumCost(conv.turns) =
                   pre.prompt_tokens - SumCost(pre.turns)
            /\ conv = prune_to_token_budget(pre, loop.max, loop.sys))

\* C4 witness: a call that evicted a turn with assistant tokens, then broke
\* out over budget in front of a pending turn.
C4_Witness ==
    /\ PruneReturned
    /\ loop.exit = "break"
    /\ Len(conv.turns) < Len(pre.turns)
    /\ pre.turns[1].assistant[1].tokens > 0
    /\ conv.turns # <<>>

\* C5: record_user_message followed immediately by discard_turn on the
\* returned id leaves the turn sequence and prompt_tokens as they were
\* before the open.
C5_OpenThenDiscardRestores ==
    undo.stage = "discarded" =>
        /\ conv.turns = undo.turns
        /\ conv.prompt_tokens = undo.prompt_tokens

\* C5 witness: an open of a message with tokens, on a conversation that has
\* turns, undone by the discard.
C5_Witness ==
    /\ undo.stage = "discarded"
    /\ conv.turns # <<>>
    /\ pre.prompt_tokens > conv.prompt_tokens

\* C6: the turns are ordered by strictly increasing id, and no id is
\* returned twice by record_user_message, also after the turn holding it
\* was discarded or evicted.
C6_IdsIncreaseAndAreFresh ==
    /\ \A i, j \in 1..Len(conv.turns) :
           i < j => conv.turns[i].id < conv.turns[j].id
    /\ \A i, j \in 1..Len(issued) : i < j => issued[i] # issued[j]

\* C6 witness: an id issued after earlier turns were removed, next to a
\* turn that is still there.
C6_Witness ==
    /\ Opened
    /\ Len(issued) = 3
    /\ Len(conv.turns) = 2
    /\ conv.turns[1].id = 0

\* C7: record_assistant_response with a turn id that is not present is a
\* no-op: the turn sequence and prompt_tokens are unchanged.
C7_CommitAbsentIsNoOp ==
    (Committed /\ last.turn_id \notin Ids(pre.turns)) => conv = pre

\* C7 witness: a non-empty answer recorded for an id that was issued and
\* is gone, on a conversation that has turns.
C7_Witness ==
    /\ Committed
    /\ last.turn_id \notin Ids(pre.turns)
    /\ \E i \in 1..Len(issued) : issued[i] = last.turn_id
    /\ Len(last.text) > 0
    /\ pre.turns # <<>>

\* C8: record_assistant_response on a present pending turn attaches the
\* assistant message to exactly the turn with that id and adds exactly its
\* token count to prompt_tokens; the turn keeps position and id, and every
\* other turn is unchanged.
C8_CommitAttachesToThatTurn ==
    Committed =>
        \A i \in 1..Len(pre.turns) :
            (pre.turns[i].id = last.turn_id /\ Pending(pre.turns[i])) =>
                /\ Len(conv.turns) = Len(pre.turns)
                /\ conv.turns[i].id = pre.turns[i].id
                /\ conv.turns[i].user = pre.turns[i].user
                /\ conv.turns[i].assistant =
                       <<[role |-> "assistant", text |-> last.text,
                          tokens |-> Len(last.text)]>>
                /\ \A j \in 1..Len(pre.turns) :
                       j # i => conv.turns[j] = pre.turns[j]
                /\ conv.prompt_tokens = pre.prompt_tokens + Len(last.text)
                /\ conv.next_turn_id = pre.next_turn_id

\* C8 witness: a non-empty answer recorded on a pending turn that is not
\* the front turn, the front turn being pending too.
C8_Witness ==
    /\ Committed
    /\ Len(pre.turns) >= 2
    /\ pre.turns[2].id = last.turn_id
    /\ Pending(pre.turns[2])
    /\ Pending(pre.turns[1])
    /\ Len(last.text) > 0

\* C9: discard_turn removes exactly the turn with the given id, wherever it
\* sits and whether pending or complete, and subtracts its full cost from
\* prompt_tokens; the other turns keep their order; an absent id changes
\* nothing.
C9_DiscardRemovesThatTurn ==
    Discarded =>
        IF last.turn_id \in Ids(pre.turns)
        THEN \E i \in 1..Len(pre.turns) :
                 /\ pre.turns[i].id = last.turn_id
                 /\ conv.turns = RemoveAt(pre.turns, i)
                 /\ conv.prompt_tokens = pre.prompt_tokens - Cost(pre.turns[i])
                 /\ conv.next_turn_id = pre.next_turn_id
        ELSE conv = pre

\* C9 witness: a complete turn with assistant tokens discarded from the
\* middle of three turns.
C9_Witness ==
    /\ Discarded
    /\ Len(pre.turns) = 3
    /\ pre.turns[2].id = last.turn_id
    /\ ~Pending(pre.turns[2])
    /\ pre.turns[2].assistant[1].tokens > 0
    /\ Len(conv.turns) = 2

\* C10: at most one pending turn exists per chat at any instant, under any
\* interleaving of concurrently handled messages for that chat.
\* Stated as claimed; two handlers of one chat both hold a pending turn
\* while their provider calls are in flight.
PendingIds == {conv.turns[i].id : i \in {j \in 1..Len(conv.turns) : Pending(conv.turns[j])}}

InFlight == {h \in Handlers : hpc[h] \in {"awaiting", "answered", "failed"}}

C11_ChunksReproduceText ==
    /\ tx.pc # "idle" => IsPrefix(Concat(tx.out), tx.text)
    /\ tx.pc # "idle" => Concat(tx.plan) = tx.text
    /\ tx.pc = "ok" => Concat(tx.out) = tx.text

\* C11 witness: a text with separators and a token longer than the limit
\* was sent completely, in three messages or more.
C11_Witness ==
    /\ tx.pc = "ok"
    /\ Len(tx.out) >= 3
    /\ \E i \in 1..Len(tx.text) : tx.text[i] \in Separators
    /\ \E i \in 1..Len(split_inclusive(tx.text)) :
           Len(split_inclusive(tx.text)[i]) > tx.limit

\* C12: no message bot_split_send sends is longer than the limit, so the
\* assertion of send_message_checked never fails.
C12_NoChunkOverLimit ==
    /\ tx.pc # "panic"
    /\ \A i \in 1..Len(tx.plan) : Len(tx.plan[i]) <= tx.limit
    /\ \A i \in 1..Len(tx.out) : Len(tx.out[i]) <= tx.limit

\* C12 witness: a text whose last token is longer than the limit, and not a
\* multiple of it, was sent completely.
C12_Witness ==
    /\ tx.pc = "ok"
    /\ LET tokens == split_inclusive(tx.text)
       IN  /\ Len(tokens) >= 2
           /\ Len(tokens[Len(tokens)]) > tx.limit
           /\ Len(tokens[Len(tokens)]) % tx.limit # 0

\* C13 as stated: for a text longer than the limit every boundary between
\* two messages is on whitespace when the message it closes has whitespace,
\* and is inside a run of non-whitespace only if the run exceeds the limit.
C13_BoundariesOnWhitespace ==
    (tx.pc # "idle" /\ Len(tx.text) > tx.limit)
        => BoundariesOn(tx.plan, tx.text, tx.limit, Whitespace)

\* C13 amended: the same with whitespace read as the space and the newline,
\* the two characters bot_split_send cuts at.
C13_BoundariesOnSeparators ==
    (tx.pc # "idle" /\ Len(tx.text) > tx.limit)
        => BoundariesOn(tx.plan, tx.text, tx.limit, Separators)

\* C13 witness: a sent text with one boundary on a separator and another
\* inside a run longer than the limit.
C13_Witness ==
    /\ tx.pc = "ok"
    /\ Len(tx.text) > tx.limit
    /\ \E i \in 1..(Len(tx.out) - 1) : OnBoundary(tx.out, i, Separators)
    /\ \E i \in 1..(Len(tx.out) - 1) : ~OnBoundary(tx.out, i, Separators)

C14_SendErrorStopsAndSkipsPersist ==
    \A m \in Msgs :
        /\ Delivered(m) = 1..app[m].sent
        /\ app[m].result = "send_error" =>
               /\ app[m].pc = "done"
               /\ app[m].sent < Len(app[m].plan)
               /\ ~InMemory(m)
               /\ ~Durable(m)

\* C14 witness: the second message of an answer failed after the first was
\* delivered, in a chat whose history holds an earlier exchange.
C14_Witness ==
    \E m \in Msgs :
        /\ app[m].result = "send_error"
        /\ app[m].sent >= 1
        /\ Delivered(m) # {}
        /\ \E k \in Msgs : app[k].chat = app[m].chat /\ Durable(k)

\* C16: in every step at most one handler is inside get_conversation or
\* holds its guard, that handler owns the mutex, and a step that changes a
\* cached Conversation is a step of the owner on its own chat.
C16_SingleWriter ==
    [][/\ Cardinality({m \in Msgs : app'[m].pc \in Guarded}) <= 1
       /\ \A m \in Msgs : app'[m].pc \in Guarded => lock' = m
       /\ cache' # cache =>
              /\ lock \in Msgs
              /\ app[lock].pc \in Guarded
              /\ \A c \in Chats \ {app[lock].chat} : cache'[c] = cache[c]]_vars

\* C16 witness: a handler holds the guard of a chat while another handler
\* of the same chat waits for it.
C16_Witness ==
    \E m, k \in Msgs :
        /\ m # k
        /\ app[m].chat = app[k].chat
        /\ app[m].pc = "prepare_held"
        /\ app[k].pc \in Wanting
        /\ lock = m

\* C17: a handler waiting in get_conversation is only ever kept waiting by
\* a handler of the same chat.
C17_DifferentChatsIndependent ==
    \A m \in Msgs :
        (app[m].pc \in Wanting /\ lock # 0)
            => app[lock].chat = app[m].chat

\* C18: a handler whose provider call is in flight or whose answer is being
\* sent does not own the conversations mutex; it owns it only inside
\* get_conversation and the guarded block after it.
C18_NoGuardDuringCallOrSend ==
    \A m \in Msgs :
        /\ app[m].pc \in {"provider", "hung", "failed", "sending"}
               => lock # m
        /\ lock = m => app[m].pc \in Guarded

\* C18 witness: while one handler is sending the rest of its answer,
\* another one holds the guard.
C18_Witness ==
    \E m, k \in Msgs :
        /\ app[m].pc = "sending"
        /\ app[m].sent >= 1
        /\ lock = k
        /\ app[k].pc \in Holding

\* C19: every message whose provider request was sent eventually reaches
\* the end of the success path or of the failure path.
C19_ProviderCallResolves ==
    \A m \in Msgs : (app[m].pc = "provider") ~> (app[m].pc = "done")

\* C20: a message whose provider call failed is in neither history, no
\* message was sent to the chat for it, and what the user gets is the
\* reaction.
C20_FailureKeepsNothing ==
    \A m \in Msgs :
        /\ (app[m].pc = "failed" \/ app[m].result \in {"failed", "react_error"})
               => /\ ~InMemory(m)
                  /\ ~Durable(m)
                  /\ \A i \in 0..MaxLen : <<m, i>> \notin outbox
        /\ m \in reacted <=> app[m].result = "failed"

\* C20 witness: a provider failure ended in a reaction in a chat whose
\* histories hold an earlier exchange.
C20_Witness ==
    \E m \in Msgs :
        /\ app[m].result = "failed"
        /\ m \in reacted
        /\ \E k \in Msgs :
               app[k].chat = app[m].chat /\ Durable(k) /\ InMemory(k)

\* C21: db::add_messages is all or nothing: while its transaction is open
\* the history table is as before the call; after a commit it holds every
\* message of the call after the earlier ones; after a failure at any point
\* (before, between or after the inserts) it holds none of them. A
\* user+assistant pair is never stored as the user message alone.
C21_AddMessagesAtomic ==
    db.op = "add_messages" =>
        /\ db.pc = "tx" => db.history = db.before
        /\ db.pc = "done" => db.history = db.before \o db.arg
        /\ db.pc = "exited" => db.history = db.before
        /\ db.history \in {db.before, db.before \o db.arg}

\* C21 witness: the call of a user+assistant pair failed after the insert
\* of the user message
C21_Witness ==
    /\ db.op = "add_messages"
    /\ db.pc = "exited"
    /\ Len(db.arg) = 2
    /\ Len(db.pending) = 1

\* C22: after load_history the loaded history is the longest newest suffix
\* of the stored messages, oldest first, whose estimate_tokens does not
\* exceed token_budget.
C22_LoadedWithinBudget ==
    DbAfter("load_history") =>
        db.loaded = LongestWithin(db.history, db.budget)

C25_MonotoneEmptyIsOverhead ==
    /\ tok.pc = "grown" => tok.est_grown >= tok.est
    /\ (tok.pc = "estimated" /\ tok.lens = <<0>>) =>
            tok.est = PER_MESSAGE_OVERHEAD

\* C25 amended: estimate_tokens never gets smaller when bytes are added to
\* a message or a message is added; the estimate of one empty text is the
\* per-message overhead plus the quarter reserved for the completion,
\* (10 * 5) / 4 = 12, which is the least estimate of any one message; every
\* estimate is at least the overhead of its messages, and the estimate of no
\* message is 0.
C25_MonotoneEmptyIsOverheadAndReserve ==
    /\ tok.pc = "grown" => tok.est_grown >= tok.est
    /\ tok.pc = "estimated" =>
        /\ tok.lens = <<0>> => tok.est = (PER_MESSAGE_OVERHEAD * 5) \div 4
        /\ Len(tok.lens) = 1 => tok.est >= (PER_MESSAGE_OVERHEAD * 5) \div 4
        /\ tok.est >= Len(tok.lens) * PER_MESSAGE_OVERHEAD
        /\ tok.lens = <<>> => tok.est = 0

\* C25 witness: the estimate was taken again after bytes were added to an
\* empty text of the input
C25_Witness ==
    /\ tok.pc = "grown"
    /\ Len(tok.grown) = Len(tok.lens)
    /\ \E i \in 1..Len(tok.lens) : tok.lens[i] = 0 /\ tok.grown[i] > 0
    /\ tok.est_grown >= tok.est

\* C26: TokenCounter::new never ends in a panic or an error: a model name
\* whose vocabulary is resolved gets that vocabulary, every other model name
\* gets the default vocabulary o200k_base.
C26_CounterFallsBack ==
    tok.pc = "counter" =>
        /\ tok.bpe # "panic"
        /\ get_bpe_from_model(tok.model_name) = None => tok.bpe = "o200k_base"
        /\ get_bpe_from_model(tok.model_name) # None =>
                tok.bpe = tok.model_name

\* C26 witness: a counter was made for a model name without a vocabulary
C26_Witness ==
    /\ tok.pc = "counter"
    /\ tok.model_name = "openai/gpt-5"
    /\ tok.bpe = "o200k_base"

C28_OneRowOneConversation ==
    \A c \in Chats :
        /\ contacts[c].loads <= 1
        /\ contacts[c].inserts <= 1
        /\ cache[c] # None <=> contacts[c].loads = 1
        /\ contacts[c].loads = 1 => rows[c] # None
        /\ contacts[c].inserts = 1 =>
            /\ contacts[c].loads = 1
            /\ [rows[c][1] EXCEPT !.user_name = None] = default_row
            /\ ~cache[c][1].is_authorized
            /\ ~cache[c][1].has_key
            /\ dbhist[c] = <<>>

\* C28 witness: two handlers contacted a chat without a row at the same
\* time; one has inserted the row and holds the new Conversation, the other
\* waits in get_conversation
C28_Witness ==
    \E c \in Chats : \E m, k \in Msgs :
        /\ m # k
        /\ app[m].chat = c /\ app[k].chat = c
        /\ contacts[c].inserts = 1
        /\ app[m].pc = "name_held"
        /\ app[k].pc = "name_want"

\* C29: when send_streaming returns Ok, on_delta was called with finalize
\* exactly once, as the last call, and every earlier call had no finalize
\* and a non-empty delta, in the order of arrival; a call of on_delta that
\* fails is the last call, and send_streaming returns the error.
C29_FinalizeLastDeltasNonEmpty ==
    /\ (st.pc = "returned" /\ st.result = "ok") =>
        /\ FinalizedOnceLast(st.calls)
        /\ \A i \in 1..(Len(st.calls) - 1) : st.calls[i].delta # <<>>
        /\ IsPrefix(Concat(Deltas(st.calls)), Payload(st.wire))
    /\ CallbackErrorStops

\* C29 amended: when send_streaming returns Ok, on_delta was called with
\* finalize exactly once, as the last call, and every earlier call had no
\* finalize and the text of a delta event, in the order of arrival; a call
\* of on_delta that fails is the last call, and send_streaming returns the
\* error. An earlier call has an empty delta only for a delta event whose
\* text is taken from an output array of empty texts.
C29_FinalizeLastDeltasInOrder ==
    /\ (st.pc = "returned" /\ st.result = "ok") =>
        /\ FinalizedOnceLast(st.calls)
        /\ \A i \in 1..(Len(st.calls) - 1) :
               st.calls[i].delta = <<>> => EmptyOutputText(st.wire)
        /\ IsPrefix(Concat(Deltas(st.calls)), Payload(st.wire))
    /\ CallbackErrorStops

\* C29 witness: send_streaming returned Ok after two different deltas and
\* the finalize call
C29_Witness ==
    /\ st.pc = "returned"
    /\ st.result = "ok"
    /\ Len(st.calls) = 3
    /\ st.calls[1].delta = <<"x">>
    /\ st.calls[2].delta = <<"y">>

\* C30: the answer send_streaming returns is the concatenation of the
\* deltas passed to on_delta before the finalize call, in that order, and
\* unless the connection breaks the calls and the result are those of the
\* same body arriving as one chunk, however the body is cut into chunks.
C30_AnswerIsDeltasAnySplit ==
    st.pc = "returned" =>
        /\ st.result = "ok" => st.full_answer = Concat(Deltas(st.calls))
        /\ st.body = "read" =>
            LET whole == WholeBody(st.wire, st.fail_at)
            IN  /\ st.result = whole.result
                /\ st.calls = whole.calls
                /\ st.result = "ok" => st.full_answer = whole.full_answer

\* C30 witness: send_streaming returned an answer of two deltas for a body
\* of which a chunk ended inside an event
C30_Witness ==
    /\ st.pc = "returned"
    /\ st.result = "ok"
    /\ st.body = "read"
    /\ st.split
    /\ Len(st.full_answer) = 2

\* C31: when the byte stream fails in send_streaming: if no delta has been
\* received yet the call returns the error and on_delta is never called; if
\* at least one delta has been received the call signals finalize and
\* returns Ok with the partial answer accumulated so far (the calls of
\* on_delta succeed).
C31_BreakErrOrPartial ==
    (st.pc = "returned" /\ st.body = "broken" /\ st.fail_at = 0) =>
        IF Received(st.calls) = <<>>
        THEN st.result = "err" /\ st.calls = <<>>
        ELSE /\ FinalizedOnceLast(st.calls)
             /\ st.result = "ok"
             /\ st.full_answer = Concat(Deltas(st.calls))

\* C31 amended: when the byte stream fails in send_streaming: if the answer
\* accumulated so far is empty (no delta was received, or only empty ones)
\* the call returns the error without a finalize call; if it is not empty
\* the call signals finalize once, as the last call, and returns Ok with
\* the partial answer, or the error of that call of on_delta if it fails.
C31_BreakErrOrPartialAnswer ==
    (st.pc = "returned" /\ st.body = "broken") =>
        IF Concat(Deltas(Append(st.calls, Finalize))) = <<>>
        THEN st.result = "err" /\ Received(st.calls) = st.calls
        ELSE /\ FinalizedOnceLast(st.calls)
             /\ st.result = (IF Len(st.calls) = st.fail_at THEN "err"
                             ELSE "ok")
             /\ st.full_answer = Concat(Deltas(st.calls))

\* C31 witness: the stream failed after a delta and send_streaming returned
\* the partial answer after the finalize call
C31_Witness ==
    /\ st.pc = "returned"
    /\ st.body = "broken"
    /\ st.result = "ok"
    /\ st.full_answer = <<"x">>
    /\ Len(st.calls) = 2
    /\ st.pos < Len(st.wire)

\* C32: bot_split_send_formatted splits only at newlines: for a (non-empty)
\* text in which no line exceeds the limit, every chunk sent is at most the
\* limit long and not empty, and the sent chunks joined with a newline are
\* the text exactly, empty lines at the start of the text or of a chunk
\* included.
C32_FormattedChunksRejoin ==
    (tx.pc = "ok" /\ tx.text # <<>>) =>
        /\ \A i \in 1..Len(tx.out) :
               Len(tx.out[i]) <= tx.limit /\ tx.out[i] # <<>>
        /\ JoinNewline(tx.out) = tx.text

\* C33: the provider request built from a conversation lists the messages
\* oldest turn first, the user message of each turn immediately before its
\* assistant message, a pending turn giving only its user message, with the
\* system prompt (when set) ahead of all turns; no evicted or discarded
\* turn appears in it.
C33_RequestListsHeldTurns ==
    last.op = "build_chat_request" =>
        LET messages == last.request.messages
            turns == conv.turns
        IN  /\ last.request.system = last.system_prompt
            /\ Len(messages) = MessagesOf(turns, Len(turns))
            /\ \A i \in 1..Len(turns) :
                   LET at == MessagesOf(turns, i - 1)
                   IN  /\ messages[at + 1] =
                              [role |-> "user", text |-> turns[i].user.text]
                       /\ turns[i].assistant # None =>
                              messages[at + 2] =
                                  [role |-> "assistant",
                                   text |-> turns[i].assistant[1].text]
                       /\ turns[i].id \notin RemovedIds
            /\ \A i, j \in 1..Len(turns) :
                   i < j => turns[i].id < turns[j].id

\* C33 witness: a request with a system prompt was built from a complete
\* turn followed by a pending one, after another turn had been evicted or
\* discarded
C33_Witness ==
    /\ last.op = "build_chat_request"
    /\ last.system_prompt # None
    /\ Len(conv.turns) = 2
    /\ conv.turns[1].assistant # None
    /\ conv.turns[2].assistant = None
    /\ RemovedIds # {}
    /\ Len(last.request.messages) = 3

\* C34: deadlock freedom: under any interleaving of the message handlers
\* (the /model <id> handler included) with the model refresh, no task is
\* left blocked forever on the conversations mutex or the models lock:
\* while a task waits for one of them, some task can take a step.
C34_NoTaskBlockedForever ==
    (\E t \in Tasks : WaitsForLock(t)) => ENABLED NextModels

\* C36: for every chat, the order of the messages in the durable history is
\* the order in which they were appended to the in-memory history, under
\* any interleaving of concurrent persist_messages calls for the chat.
C36_DurableOrderIsMemoryOrder ==
    \A c \in Chats : \A m, k \in Msgs :
        (m # k /\ cache[c] # None) =>
            LET history == cache[c][1].history
            IN  (\E i \in EntriesOf(history, m) :
                     \E j \in EntriesOf(history, k) : i < j)
                    => ~(\E i \in EntriesOf(dbhist[c], m) :
                             \E j \in EntriesOf(dbhist[c], k) : j < i)

\* C35: once all in-flight /approve commands have completed, the cached
\* is_authorized of every loaded chat equals the is_authorized of its
\* durable row, under any interleaving of /approve commands issued from
\* different admin chats for the same target chat.
C35_CacheEqualsRowAfterApproves ==
    ~ApproveInFlight =>
        \A c \in GateChats :
            gate.cache[c] # None =>
                gate.cache[c][1].is_authorized = gate.rows[c][1].is_authorized

\* C37: no message is added to the in-memory or the durable history of a
\* chat while the chat is unauthorized, on any path through
\* process_message, group messages that neither mention nor reply to the
\* bot included.
C37_NoHistoryWhileUnauthorized ==
    [][\A c \in GateChats : HistoryGrows(c) => GateAuthorized(c)]_vars

\* C40: the authorization of a chat changes only through an /approve sent
\* in a private chat whose is_admin flag is true: an /approve from a chat
\* that is not admin, or any command sent in a group, changes neither the
\* durable row nor the cached state of any chat.
C40_OnlyAdminApproveChanges ==
    [][/\ \A c \in GateChats : AuthorizationChanges(c) => ApproveByAdmin(c)
       /\ \A t \in GateTasks :
              (/\ gate'.h[t] # gate.h[t]
               /\ gate.h[t].pc \in {"passed", "approve_db", "approve_cache"}
               /\ gate.h[t].msg.kind \in {"approve", "command"}
               /\ \/ is_public(gate.h[t].msg.chat)
                  \/ ~gate.rows[gate.h[t].msg.chat][1].is_admin)
                  => /\ gate'.rows = gate.rows
                     /\ gate'.cache = gate.cache]_vars

\* C40 witness: an /approve of an admin chat has changed the row and the
\* loaded Conversation of its target, after an /approve of a chat that is
\* not admin was turned down
C40_Witness ==
    \E t, u \in GateTasks :
        /\ gate.h[t].pc = "done" /\ gate.h[t].result = "approved"
        /\ gate.h[t].msg.target = "G"
        /\ gate.cache["G"] # None
        /\ gate.cache["G"][1].is_authorized
        /\ gate.rows["G"][1].is_authorized
        /\ gate.h[u].pc = "done" /\ gate.h[u].result = "not_admin"

\* C38: mask_api_key returns a masked version of the key: for every
\* (non-empty) key of every length the output hides at least one character
\* of the key: it shows fewer characters of the key than the key has, so
\* the full key cannot be read back from it.
C38_MaskHidesACharacter ==
    (cmd.pc = "masked" /\ cmd.key # <<>>) =>
        Len(cmd.masked) - Len(<<"*", "*", "*">>) < Len(cmd.key)

\* C39: every command spelled in the /help text (/help, /start, /models,
\* /model, /key, /system_prompt, /approve) is accepted by parse_command and
\* parsed to its Command variant, not rejected as an unknown command, with
\* or without the mention of the bot and in any letter case.
C39_HelpCommandsAccepted ==
    cmd.pc = "parsed" =>
        \A name \in HelpNames :
            cmd.text \in HelpSpellings(name) =>
                /\ cmd.command.ok
                /\ cmd.command.command = VariantOf(name)

====
